---- MODULE Spec2Model ----
(***************************************************************************)
(* Frame-synchronous Viterbi search over a finite-state grammar:           *)
(* pocketsphinx fsg_search.c (start / step / finish, the word-exit history *)
(* and the back-pointer search).                                           *)
(*                                                                         *)
(* The decoder handle fsg_search_t is the record fsgs; the fields keep the *)
(* names of the C struct.  History indices (bpidx) are 0-based as in the C *)
(* code: entry bpidx is fsgs.history[bpidx + 1].  fsgs.fault is not a     *)
(* field of the struct: it records a failed assert(), E_FATAL or invalid    *)
(* memory access, after which the process is gone.                         *)
(***************************************************************************)
EXTENDS Integers, Sequences, FiniteSets, TLC

VARIABLES fsgs, pc, senscr, ret, exit_res, hyp_str, phases, last_op

vars == <<fsgs, pc, senscr, ret, exit_res, hyp_str, phases, last_op>>

(***************************************************************************)
(* Bounds of the model.                                                    *)
(***************************************************************************)
\* frames decoded per utterance
MaxFrame == 4
\* lattices built in one run
MaxLattices == 2

(***************************************************************************)
(* Program constants and configuration values.                             *)
(***************************************************************************)
\* hmm.h WORST_SCORE, scaled to the score range of the model
WORST_SCORE == -1000
\* bestscore = INT_MIN in fsg_search_find_exit, scaled like WORST_SCORE
INT_MIN == -100000
\* -beam, -pbeam, -wbeam in the log domain
beam_orig == -4
pbeam_orig == -4
wbeam_orig == -3
\* -maxhmmpf: the configured cap, and the value that disables the adjustment
maxhmmpf == 2
MaxHmmpfValues == {-1, maxhmmpf}
\* beam_factor is kept in millionths: 1000000 is 1.0f
FactorOne == 1000000
\* the hardwired floor 0.1 and multiplier 0.9 of fsg_search_hmm_eval
FactorFloor == 100000
FactorMulNum == 9
FactorMulDen == 10

(***************************************************************************)
(* Collaborator data: phones, the grammars (fsg_model_t) and the lextree   *)
(* built from each of them (fsg_lextree_t).  Link id 0 is the NULL link.   *)
(***************************************************************************)
SIL == 0
PhA == 1
PhB == 2
Phones == {SIL, PhA, PhB}
AllCtxt == Phones

\* grammar ids: 1 = word sequence with a filler self-loop,
\*              2 = null transition out of the start state and back
\*              3 = a two-phone word with two right-context variants, followed
\*                  by one of two one-phone words
\*              4 = one of two one-phone words, followed by a one-phone word
\*                  (decoded only where lattices are built)
Grammars == {1, 2, 3}
ChoiceGrammar == 4

n_state(g) == 3
start_state(g) == 0
final_state(g) == 2
States == 0 .. 2

\* arcs (from_state, to_state, wid, logs2prob); wid = -1 is a null arc
Links(g) ==
    IF g = 1
    THEN << [from_state |-> 0, to_state |-> 1, wid |-> 0, logs2prob |-> -1],
            [from_state |-> 1, to_state |-> 2, wid |-> 1, logs2prob |-> -1],
            [from_state |-> 1, to_state |-> 1, wid |-> 2, logs2prob |-> -1] >>
    ELSE IF g = 2
    THEN << [from_state |-> 0, to_state |-> 1, wid |-> -1, logs2prob |-> -1],
            [from_state |-> 1, to_state |-> 2, wid |-> 0, logs2prob |-> -1],
            [from_state |-> 2, to_state |-> 1, wid |-> -1, logs2prob |-> -1],
            [from_state |-> 2, to_state |-> 0, wid |-> -1, logs2prob |-> -1] >>
    ELSE IF g = 3
    THEN << [from_state |-> 0, to_state |-> 1, wid |-> 0, logs2prob |-> -1],
            [from_state |-> 1, to_state |-> 2, wid |-> 1, logs2prob |-> -1],
            [from_state |-> 1, to_state |-> 2, wid |-> 2, logs2prob |-> -1] >>
    ELSE << [from_state |-> 0, to_state |-> 1, wid |-> 0, logs2prob |-> -1],
            [from_state |-> 0, to_state |-> 1, wid |-> 1, logs2prob |-> -1],
            [from_state |-> 1, to_state |-> 2, wid |-> 0, logs2prob |-> -1] >>

LinkIds(g) == 1 .. Len(Links(g))

fsg_link_to_state(g, l) == Links(g)[l].to_state
fsg_link_wid(g, l) == Links(g)[l].wid
fsg_link_logs2prob(g, l) == Links(g)[l].logs2prob

\* fsg_model_null_trans(fsg, s, d): the null arc s -> d, or 0 (NULL)
fsg_model_null_trans(g, s, d) ==
    LET c == {l \in LinkIds(g) : /\ Links(g)[l].wid = -1
                                 /\ Links(g)[l].from_state = s
                                 /\ Links(g)[l].to_state = d}
    IN IF c = {} THEN 0 ELSE CHOOSE l \in c : TRUE

\* grammar 1: wid 0 = "A" (one phone), wid 1 = "BA" (two phones), wid 2 = <sil>
\* grammar 2: wid 0 = "BA"
\* grammar 3: wid 0 = "BA", wid 1 = "A", wid 2 = "B"
\* grammar 4: wid 0 = "A", wid 1 = "B"
fsg_model_is_filler(g, wid) == g = 1 /\ wid = 2
dict_pronlen(g, wid) ==
    IF g = 1 THEN (IF wid = 1 THEN 2 ELSE 1)
    ELSE IF g = 2 THEN 2
    ELSE IF g = 3 THEN (IF wid = 0 THEN 2 ELSE 1)
    ELSE 1

\* lextree nodes: ci_ext, ctxt, leaf, fsglink (leaf only), logs2prob, succ
\* (the successor followed by its siblings)
Pnodes(g) ==
    IF g = 1
    THEN << [ci_ext |-> PhA, ctxt |-> AllCtxt, leaf |-> TRUE, fsglink |-> 1,
             logs2prob |-> -1, succ |-> << >>],
            [ci_ext |-> SIL, ctxt |-> AllCtxt, leaf |-> TRUE, fsglink |-> 3,
             logs2prob |-> -3, succ |-> << >>],
            [ci_ext |-> PhB, ctxt |-> {SIL, PhA}, leaf |-> FALSE, fsglink |-> 0,
             logs2prob |-> -1, succ |-> <<5>>],
            [ci_ext |-> PhB, ctxt |-> {SIL, PhB}, leaf |-> FALSE, fsglink |-> 0,
             logs2prob |-> -1, succ |-> <<5>>],
            [ci_ext |-> PhA, ctxt |-> {SIL, PhA}, leaf |-> TRUE, fsglink |-> 2,
             logs2prob |-> 0, succ |-> << >>] >>
    ELSE IF g = 2
    THEN << [ci_ext |-> PhB, ctxt |-> {SIL, PhA}, leaf |-> FALSE, fsglink |-> 0,
             logs2prob |-> -1, succ |-> <<2>>],
            [ci_ext |-> PhA, ctxt |-> {SIL, PhB}, leaf |-> TRUE, fsglink |-> 2,
             logs2prob |-> 0, succ |-> << >>] >>
    ELSE IF g = 4
    THEN << [ci_ext |-> PhA, ctxt |-> AllCtxt, leaf |-> TRUE, fsglink |-> 1,
             logs2prob |-> -1, succ |-> << >>],
            [ci_ext |-> PhB, ctxt |-> AllCtxt, leaf |-> TRUE, fsglink |-> 2,
             logs2prob |-> -1, succ |-> << >>],
            [ci_ext |-> PhA, ctxt |-> AllCtxt, leaf |-> TRUE, fsglink |-> 3,
             logs2prob |-> -1, succ |-> << >>] >>
    ELSE << [ci_ext |-> PhB, ctxt |-> AllCtxt, leaf |-> FALSE, fsglink |-> 0,
             logs2prob |-> -1, succ |-> <<2, 3>>],
            [ci_ext |-> PhA, ctxt |-> {SIL, PhA}, leaf |-> TRUE, fsglink |-> 1,
             logs2prob |-> 0, succ |-> << >>],
            [ci_ext |-> PhA, ctxt |-> {PhB}, leaf |-> TRUE, fsglink |-> 1,
             logs2prob |-> 0, succ |-> << >>],
            [ci_ext |-> PhA, ctxt |-> {PhA}, leaf |-> TRUE, fsglink |-> 2,
             logs2prob |-> -1, succ |-> << >>],
            [ci_ext |-> PhB, ctxt |-> {PhA}, leaf |-> TRUE, fsglink |-> 3,
             logs2prob |-> -1, succ |-> << >>] >>

fsg_lextree_n_pnode(g) == Len(Pnodes(g))
PnodeIds(g) == 1 .. fsg_lextree_n_pnode(g)

\* fsg_lextree_root(lextree, s): the root followed by its siblings
fsg_lextree_root(g, s) ==
    IF g = 1
    THEN (IF s = 0 THEN <<1>> ELSE IF s = 1 THEN <<2, 3, 4>> ELSE << >>)
    ELSE IF g = 2
    THEN (IF s = 1 THEN <<1>> ELSE << >>)
    ELSE IF g = 3
    THEN (IF s = 0 THEN <<1>> ELSE IF s = 1 THEN <<4, 5>> ELSE << >>)
    ELSE (IF s = 0 THEN <<1, 2>> ELSE IF s = 1 THEN <<3>> ELSE << >>)

\* senone scores the acoustic model may deliver for one phone in one frame
SenScores == {0, -3}

(***************************************************************************)
(* HMM instance (hmm_t) with one emitting state.                           *)
(***************************************************************************)
ClampScore(v) == IF v < WORST_SCORE THEN WORST_SCORE ELSE v

\* hmm_clear, reached through fsg_psubtree_pnode_deactivate
hmm_clear ==
    [frame |-> -1, in_score |-> WORST_SCORE, in_history |-> -1,
     out_score |-> WORST_SCORE, out_history |-> -1, bestscore |-> WORST_SCORE]

\* hmm_enter(h, score, histid, frame)
hmm_enter(h, score, histid, frm) ==
    [h EXCEPT !.in_score = score, !.in_history = histid, !.frame = frm]

\* hmm_vit_eval(h) under senone score x
hmm_vit_eval(h, x) ==
    LET s0 == ClampScore(h.in_score + x)
    IN [h EXCEPT !.in_score = s0, !.out_score = s0,
                 !.out_history = h.in_history, !.bestscore = s0]

(***************************************************************************)
(* History table (fsg_history_t): the committed entries fsgs.history and   *)
(* the entries of the frame in progress, fsgs.frame_entries[s][lc].        *)
(***************************************************************************)
fsg_history_n_entries(f) == Len(f.history)
fsg_history_entry_get(f, bpidx) == f.history[bpidx + 1]

HistEntry(link, frm, score, pred, lc, rc) ==
    [fsglink |-> link, frame |-> frm, score |-> score, pred |-> pred,
     lc |-> lc, rc |-> rc]

EmptyFrameEntries == [s \in States |-> [lc \in Phones |-> << >>]]

RECURSIVE UnionRc(_, _)
UnionRc(L, k) == IF k = 0 THEN {} ELSE L[k].rc \cup UnionRc(L, k - 1)

RECURSIVE CountBetter(_, _, _)
\* number of leading entries of L, from position i, whose score is not worse
CountBetter(L, i, score) ==
    IF i > Len(L) \/ L[i].score < score THEN 0
    ELSE 1 + CountBetter(L, i + 1, score)

RECURSIVE SubRc(_, _)
\* the entries of L with rc removed from theirs, emptied entries dropped
SubRc(L, rc) ==
    IF L = << >> THEN << >>
    ELSE LET e == [Head(L) EXCEPT !.rc = @ \ rc]
         IN IF e.rc = {} THEN SubRc(Tail(L), rc)
            ELSE <<e>> \o SubRc(Tail(L), rc)

\* fsg_history_entry_add
fsg_history_entry_add(f, link, frm, score, pred, lc, rc) ==
    IF frm < 0
    THEN [f EXCEPT !.history = Append(@, HistEntry(link, frm, score, pred, lc, rc))]
    ELSE LET s == fsg_link_to_state(f.fsg, link)
             L == f.frame_entries[s][lc]
             k == CountBetter(L, 1, score)
             newrc == rc \ UnionRc(L, k)
         IN IF k > 0 /\ newrc = {}
            THEN f
            ELSE [f EXCEPT !.frame_entries[s][lc] =
                      SubSeq(L, 1, k)
                      \o <<HistEntry(link, frm, score, pred, lc, newrc)>>
                      \o SubRc(SubSeq(L, k + 1, Len(L)), newrc)]

RECURSIVE FlattenEntries(_, _, _)
\* the lists frame_entries[s][lc] in the order s = 0.., lc = 0..
FlattenEntries(fe, s, lc) ==
    IF s > 2 THEN << >>
    ELSE IF lc > 2 THEN FlattenEntries(fe, s + 1, 0)
    ELSE fe[s][lc] \o FlattenEntries(fe, s, lc + 1)

\* fsg_history_end_frame
fsg_history_end_frame(f) ==
    [f EXCEPT !.history = @ \o FlattenEntries(f.frame_entries, 0, 0),
              !.frame_entries = EmptyFrameEntries]

\* fsg_history_reset followed by fsg_history_utt_start
fsg_history_reset(f) ==
    [f EXCEPT !.history = << >>, !.frame_entries = EmptyFrameEntries]

(***************************************************************************)
(* fsg_search_hmm_eval                                                     *)
(***************************************************************************)
Pnode(f, p) == Pnodes(f.fsg)[p]

\* glist_add_ptr: the new element becomes the head of the list
glist_add_ptr(list, p) == <<p>> \o list

RECURSIVE ListOf(_)
\* a list (glist_t) of the elements of S
ListOf(S) ==
    IF S = {} THEN << >>
    ELSE LET p == CHOOSE x \in S : \A y \in S : x <= y
         IN <<p>> \o ListOf(S \ {p})

SetFault(f, what) == IF f.fault = "none" THEN [f EXCEPT !.fault = what] ELSE f

\* (int32)(orig * beam_factor): the product truncated towards zero
ScaleBeam(orig, factor) ==
    IF orig <= 0 THEN -(((-orig) * factor) \div FactorOne)
    ELSE (orig * factor) \div FactorOne

\* one iteration of the evaluation loop: the assertion and hmm_vit_eval
EvalOne(f, p, scr) ==
    LET f1 == IF f.hmm[p].frame = f.frame THEN f ELSE SetFault(f, "assert_eval")
    IN [f1 EXCEPT !.hmm[p] = hmm_vit_eval(@, scr[Pnode(f, p).ci_ext])]

RECURSIVE EvalLoop(_, _, _, _)
\* the loop over pnode_active from element i, best being bestscore so far
EvalLoop(f, i, best, scr) ==
    IF i > Len(f.pnode_active) THEN [f |-> f, bestscore |-> best]
    ELSE LET p == f.pnode_active[i]
             f1 == EvalOne(f, p, scr)
             score == f1.hmm[p].bestscore
         IN EvalLoop(f1, i + 1, IF best < score THEN score ELSE best, scr)

\* faulty variant: the beams are never put back to their original values
AdjustBeams_NoReset(f, n) ==
    IF f.maxhmmpf # -1 /\ n > f.maxhmmpf /\ f.beam_factor > FactorFloor
    THEN LET bf == (f.beam_factor * FactorMulNum) \div FactorMulDen
         IN [f EXCEPT !.beam_factor = bf,
                      !.beam = -(((-beam_orig) * bf) \div FactorOne),
                      !.pbeam = -(((-pbeam_orig) * bf) \div FactorOne),
                      !.wbeam = -(((-wbeam_orig) * bf) \div FactorOne)]
    ELSE f

\* the beam adjustment of fsg_search_hmm_eval for n evaluated HMMs
AdjustBeams(f, n) ==
    IF f.maxhmmpf # -1 /\ n > f.maxhmmpf
    THEN IF f.beam_factor > FactorFloor
         THEN LET bf == (f.beam_factor * FactorMulNum) \div FactorMulDen
              IN [f EXCEPT !.beam_factor = bf,
                           !.beam = ScaleBeam(beam_orig, bf),
                           !.pbeam = ScaleBeam(pbeam_orig, bf),
                           !.wbeam = ScaleBeam(wbeam_orig, bf)]
         ELSE f
    ELSE [f EXCEPT !.beam_factor = FactorOne, !.beam = beam_orig,
                   !.pbeam = pbeam_orig, !.wbeam = wbeam_orig]

\* faulty variant: no return on an empty active list
fsg_search_hmm_eval_NoReturn(f, scr) ==
    LET r == EvalLoop(f, 1, WORST_SCORE, scr)
        n == Len(f.pnode_active)
        f1 == [r.f EXCEPT !.n_hmm_eval = @ + n]
        f2 == AdjustBeams(f1, n)
    IN [f2 EXCEPT !.bestscore = r.bestscore]

fsg_search_hmm_eval(f, scr) ==
    IF f.pnode_active = << >> THEN f
    ELSE LET r == EvalLoop(f, 1, WORST_SCORE, scr)
             n == Len(f.pnode_active)
             f1 == [r.f EXCEPT !.n_hmm_eval = @ + n]
             f2 == AdjustBeams(f1, n)
             f3 == IF n > fsg_lextree_n_pnode(f.fsg)
                   THEN SetFault(f2, "fatal") ELSE f2
         IN [f3 EXCEPT !.bestscore = r.bestscore]

(***************************************************************************)
(* fsg_search_pnode_trans, fsg_search_pnode_exit, fsg_search_hmm_prune_prop*)
(***************************************************************************)
\* faulty variant: the target is put on the list at every entry
NotYetActivated_Always(h, nf) == TRUE

\* the admission test on the frame field of the target HMM
NotYetActivated(h, nf) == h.frame < nf

\* faulty variant: the score the child already holds is not looked at
TransChild_AnyScore(f, p, child) ==
    LET nf == f.frame + 1
        hmm == f.hmm[p]
        newscore == hmm.out_score + Pnode(f, child).logs2prob
    IN IF newscore >= f.bestscore + f.beam
       THEN LET f1 == IF NotYetActivated(f.hmm[child], nf)
                      THEN [f EXCEPT !.pnode_active_next = glist_add_ptr(@, child)]
                      ELSE f
            IN [f1 EXCEPT !.hmm[child] = hmm_enter(@, newscore, hmm.out_history, nf)]
       ELSE f

\* the body of the loop over the children of pnode p
TransChild(f, p, child) ==
    LET nf == f.frame + 1
        thresh == f.bestscore + f.beam
        hmm == f.hmm[p]
        newscore == hmm.out_score + Pnode(f, child).logs2prob
    IN IF newscore >= thresh /\ newscore > f.hmm[child].in_score
       THEN LET f1 == IF NotYetActivated(f.hmm[child], nf)
                      THEN [f EXCEPT !.pnode_active_next = glist_add_ptr(@, child)]
                      ELSE f
            IN [f1 EXCEPT !.hmm[child] = hmm_enter(@, newscore, hmm.out_history, nf)]
       ELSE f

RECURSIVE TransLoop(_, _, _)
TransLoop(f, p, i) ==
    IF i > Len(Pnode(f, p).succ) THEN f
    ELSE TransLoop(TransChild(f, p, Pnode(f, p).succ[i]), p, i + 1)

fsg_search_pnode_trans(f, p) == TransLoop(f, p, 1)

\* faulty variant: the context of the leaf is used for every word
fsg_search_pnode_exit_Ctxt(f, p) ==
    fsg_history_entry_add(f, Pnode(f, p).fsglink, f.frame, f.hmm[p].out_score,
                          f.hmm[p].out_history, Pnode(f, p).ci_ext,
                          Pnode(f, p).ctxt)

fsg_search_pnode_exit(f, p) ==
    LET hmm == f.hmm[p]
        fl == Pnode(f, p).fsglink
        wid == fsg_link_wid(f.fsg, fl)
    IN IF fsg_model_is_filler(f.fsg, wid) \/ dict_pronlen(f.fsg, wid) = 1
       THEN fsg_history_entry_add(f, fl, f.frame, hmm.out_score,
                                  hmm.out_history, Pnode(f, p).ci_ext, AllCtxt)
       ELSE fsg_history_entry_add(f, fl, f.frame, hmm.out_score,
                                  hmm.out_history, Pnode(f, p).ci_ext,
                                  Pnode(f, p).ctxt)

\* faulty variant: the frame is advanced but the pnode is not put on the list
KeepActive_NoPush(f, p) ==
    IF f.hmm[p].frame = f.frame
    THEN [f EXCEPT !.hmm[p].frame = f.frame + 1]
    ELSE IF f.hmm[p].frame = f.frame + 1 THEN f
    ELSE SetFault(f, "assert_carried")

\* faulty variant: a pnode already carried over is put on the list again
KeepActive_AlwaysPush(f, p) ==
    IF f.hmm[p].frame = f.frame \/ f.hmm[p].frame = f.frame + 1
    THEN [f EXCEPT !.hmm[p].frame = f.frame + 1,
                   !.pnode_active_next = glist_add_ptr(@, p)]
    ELSE SetFault(f, "assert_carried")

\* "Keep this HMM active in the next frame"
KeepActive(f, p) ==
    IF f.hmm[p].frame = f.frame
    THEN [f EXCEPT !.hmm[p].frame = f.frame + 1,
                   !.pnode_active_next = glist_add_ptr(@, p)]
    ELSE IF f.hmm[p].frame = f.frame + 1 THEN f
    ELSE SetFault(f, "assert_carried")

\* the body of the loop over pnode_active
PruneOne(f, p) ==
    LET thresh == f.bestscore + f.beam
        phone_thresh == f.bestscore + f.pbeam
        word_thresh == f.bestscore + f.wbeam
    IN IF f.hmm[p].bestscore >= thresh
       THEN LET f1 == KeepActive(f, p)
            IN IF ~Pnode(f, p).leaf
               THEN (IF f1.hmm[p].out_score >= phone_thresh
                     THEN fsg_search_pnode_trans(f1, p) ELSE f1)
               ELSE (IF f1.hmm[p].out_score >= word_thresh
                     THEN fsg_search_pnode_exit(f1, p) ELSE f1)
       ELSE f

RECURSIVE PruneLoop(_, _)
PruneLoop(f, i) ==
    IF i > Len(f.pnode_active) THEN f
    ELSE PruneLoop(PruneOne(f, f.pnode_active[i]), i + 1)

fsg_search_hmm_prune_prop(f) ==
    LET f0 == IF f.pnode_active_next = << >> THEN f
              ELSE SetFault(f, "assert_next")
    IN PruneLoop(f0, 1)

(***************************************************************************)
(* fsg_search_null_prop                                                    *)
(***************************************************************************)
\* faulty variant: every entry is taken to end in the start state
DestState_Start(f, e) == start_state(f.fsg)

\* destination FSG state of a history entry
DestState(f, e) ==
    IF e.fsglink # 0 THEN fsg_link_to_state(f.fsg, e.fsglink)
    ELSE start_state(f.fsg)

\* faulty variant: the predecessor is off by one
NullPred_OffByOne(bpidx) == bpidx + 1

\* the predecessor recorded in an entry made by null propagation from bpidx
NullPred(bpidx) == bpidx

\* faulty variant: the entries are pruned with beam
NullOne_Beam(f, bpidx, d) ==
    LET hist_entry == fsg_history_entry_get(f, bpidx)
        l == fsg_model_null_trans(f.fsg, DestState(f, hist_entry), d)
    IN IF l # 0 /\ hist_entry.score + fsg_link_logs2prob(f.fsg, l)
                      >= f.bestscore + f.beam
       THEN fsg_history_entry_add(f, l, hist_entry.frame,
                hist_entry.score + fsg_link_logs2prob(f.fsg, l),
                NullPred(bpidx), hist_entry.lc, hist_entry.rc)
       ELSE f

\* the body of the loop over the states d for the entry at bpidx
NullOne(f, bpidx, d) ==
    LET hist_entry == fsg_history_entry_get(f, bpidx)
        thresh == f.bestscore + f.wbeam
        s == DestState(f, hist_entry)
        l == fsg_model_null_trans(f.fsg, s, d)
    IN IF l # 0
       THEN LET newscore == hist_entry.score + fsg_link_logs2prob(f.fsg, l)
            IN IF newscore >= thresh
               THEN fsg_history_entry_add(f, l, hist_entry.frame, newscore,
                                          NullPred(bpidx), hist_entry.lc,
                                          hist_entry.rc)
               ELSE f
       ELSE f

RECURSIVE NullLoop(_, _, _, _)
\* for (bpidx ..< n_entries) for (d = 0 ..< n_state)
NullLoop(f, bpidx, d, n_entries) ==
    IF bpidx >= n_entries THEN f
    ELSE IF d >= n_state(f.fsg) THEN NullLoop(f, bpidx + 1, 0, n_entries)
    ELSE NullLoop(NullOne(f, bpidx, d), bpidx, d + 1, n_entries)

fsg_search_null_prop(f) ==
    NullLoop(f, f.bpidx_start, 0, fsg_history_n_entries(f))

(***************************************************************************)
(* fsg_search_word_trans                                                   *)
(***************************************************************************)
\* faulty variant: the right-context test is left out
Admissible_LeftOnly(root_ctxt, lc, entry_rc, rc) == lc \in root_ctxt

\* the two bitset tests of the cross-word transition
Admissible(root_ctxt, lc, entry_rc, rc) == lc \in root_ctxt /\ rc \in entry_rc

\* faulty variant: a score equal to the one the root holds enters it again
WordTransRoot_LastWins(f, bpidx, root) ==
    LET hist_entry == fsg_history_entry_get(f, bpidx)
        nf == f.frame + 1
        newscore == hist_entry.score + Pnode(f, root).logs2prob
    IN IF /\ Admissible(Pnode(f, root).ctxt, hist_entry.lc, hist_entry.rc,
                        Pnode(f, root).ci_ext)
          /\ newscore >= f.bestscore + f.beam
          /\ newscore >= f.hmm[root].in_score
       THEN LET f1 == IF NotYetActivated(f.hmm[root], nf)
                      THEN [f EXCEPT !.pnode_active_next =
                                         glist_add_ptr(@, root)]
                      ELSE f
            IN [f1 EXCEPT !.hmm[root] = hmm_enter(@, newscore, bpidx, nf)]
       ELSE f

\* the body of the loop over the roots of the destination state
WordTransRoot(f, bpidx, root) ==
    LET hist_entry == fsg_history_entry_get(f, bpidx)
        thresh == f.bestscore + f.beam
        nf == f.frame + 1
        rc == Pnode(f, root).ci_ext
    IN IF Admissible(Pnode(f, root).ctxt, hist_entry.lc, hist_entry.rc, rc)
       THEN LET newscore == hist_entry.score + Pnode(f, root).logs2prob
            IN IF newscore >= thresh /\ newscore > f.hmm[root].in_score
               THEN LET f1 == IF NotYetActivated(f.hmm[root], nf)
                              THEN [f EXCEPT !.pnode_active_next =
                                                 glist_add_ptr(@, root)]
                              ELSE f
                    IN [f1 EXCEPT !.hmm[root] = hmm_enter(@, newscore, bpidx, nf)]
               ELSE f
       ELSE f

RECURSIVE WordTransLoop(_, _, _, _)
WordTransLoop(f, bpidx, i, n_entries) ==
    IF bpidx >= n_entries THEN f
    ELSE LET hist_entry == fsg_history_entry_get(f, bpidx)
             roots == fsg_lextree_root(f.fsg, DestState(f, hist_entry))
         IN IF i > Len(roots) THEN WordTransLoop(f, bpidx + 1, 1, n_entries)
            ELSE LET f0 == IF i = 1 /\ f.frame # hist_entry.frame
                           THEN SetFault(f, "assert_wtrans") ELSE f
                 IN WordTransLoop(WordTransRoot(f0, bpidx, roots[i]),
                                  bpidx, i + 1, n_entries)

fsg_search_word_trans(f) ==
    WordTransLoop(f, f.bpidx_start, 1, fsg_history_n_entries(f))

(***************************************************************************)
(* fsg_search_start, fsg_search_finish                                     *)
(***************************************************************************)
\* fsg_psubtree_pnode_deactivate on every element of a list
RECURSIVE DeactivateList(_, _, _)
DeactivateList(f, list, i) ==
    IF i > Len(list) THEN f
    ELSE DeactivateList([f EXCEPT !.hmm[list[i]] = hmm_clear], list, i + 1)

\* faulty variant: the beams keep the values of the previous utterance
ResetBeams_Skip(f) == f

\* "Reset dynamic adjustment factor for beams"
ResetBeams(f) ==
    [f EXCEPT !.beam_factor = FactorOne, !.beam = beam_orig,
              !.pbeam = pbeam_orig, !.wbeam = wbeam_orig]

\* the dummy history entry leading to the start state
StartDummy(f) ==
    fsg_history_entry_add(f, 0, -1, 0, -1, SIL, AllCtxt)

\* faulty variant: the frame counter is not advanced
SwapActive_NoIncr(f) ==
    [f EXCEPT !.pnode_active = f.pnode_active_next,
              !.pnode_active_next = << >>]

\* "Make the next-frame active list the current one" and ++frame
SwapActive(f) ==
    [f EXCEPT !.pnode_active = f.pnode_active_next,
              !.pnode_active_next = << >>,
              !.frame = f.frame + 1]

fsg_search_start(f) ==
    LET f1 == ResetBeams(f)
        f2 == IF f1.pnode_active = << >> /\ f1.pnode_active_next = << >>
              THEN f1 ELSE SetFault(f1, "assert_start")
        f3 == [fsg_history_reset(f2) EXCEPT !.final = FALSE]
        f4 == StartDummy([f3 EXCEPT !.frame = -1, !.bestscore = 0])
        f5 == [f4 EXCEPT !.bpidx_start = 0]
        f6 == fsg_search_null_prop(f5)
        f7 == fsg_search_word_trans(f6)
        f8 == SwapActive(f7)
    IN IF f2.fault # "none" THEN f2
       ELSE [f8 EXCEPT !.n_hmm_eval = 0]

\* faulty variant: the lists are freed but their HMMs are not deactivated
fsg_search_finish_NoDeactivate(f) ==
    [f EXCEPT !.pnode_active = << >>, !.pnode_active_next = << >>,
              !.final = TRUE]

fsg_search_finish(f) ==
    LET f1 == DeactivateList(f, f.pnode_active, 1)
        f2 == DeactivateList(f1, f1.pnode_active_next, 1)
    IN [f2 EXCEPT !.pnode_active = << >>, !.pnode_active_next = << >>,
                  !.final = TRUE]

(***************************************************************************)
(* fsg_search_step, phase by phase                                         *)
(***************************************************************************)
\* faulty variant: the mark is put at the start of the table
MarkBpidxStart_Zero(f) == [f EXCEPT !.bpidx_start = 0]

\* "Mark backpointer table for current frame"
MarkBpidxStart(f) == [f EXCEPT !.bpidx_start = fsg_history_n_entries(f)]

\* the loop that deactivates the HMMs not carried into the next frame
RECURSIVE DeactivateLoop(_, _)
DeactivateLoop(f, i) ==
    IF i > Len(f.pnode_active) THEN f
    ELSE LET p == f.pnode_active[i]
         IN IF f.hmm[p].frame = f.frame
            THEN DeactivateLoop([f EXCEPT !.hmm[p] = hmm_clear], i + 1)
            ELSE IF f.hmm[p].frame = f.frame + 1
            THEN DeactivateLoop(f, i + 1)
            ELSE DeactivateLoop(SetFault(f, "assert_deact"), i + 1)

\* faulty variant: no HMM is reset at the end of the frame
StepDeactivate_Skip(f) == f

StepDeactivate(f) == DeactivateLoop(f, 1)

\* faulty variant: the frame counter moves although no frame was processed
StepNoFrameState_Incr(f) == [f EXCEPT !.frame = f.frame + 1]

\* the decoder after a step that found no frame to process
StepNoFrameState(f) == f

\* faulty variant: cross-word transitions run before the second commit
StepOrder_XwordEarly ==
    << "eval", "prune", "commit1", "null", "xword", "commit2", "deact", "swap" >>

\* the order of the phases of one step
StepOrder ==
    << "eval", "prune", "commit1", "null", "commit2", "xword", "deact", "swap" >>

\* the phase that follows phase ph
NextPhase(ph) ==
    LET i == CHOOSE k \in 1 .. Len(StepOrder) : StepOrder[k] = ph
    IN IF i = Len(StepOrder) THEN "idle" ELSE StepOrder[i + 1]

\* the effect of phase ph on the decoder
PhaseEffect(f, ph, scr) ==
    CASE ph = "eval"    -> fsg_search_hmm_eval(f, scr)
      [] ph = "prune"   -> fsg_search_hmm_prune_prop(f)
      [] ph = "commit1" -> fsg_history_end_frame(f)
      [] ph = "null"    -> fsg_search_null_prop(f)
      [] ph = "commit2" -> fsg_history_end_frame(f)
      [] ph = "xword"   -> fsg_search_word_trans(f)
      [] ph = "deact"   -> StepDeactivate(f)
      [] ph = "swap"    -> SwapActive(f)

NoScores == [ph \in Phones |-> 0]
NoExit == [kind |-> "none", bpidx |-> -1]
NoHyp == [null |-> TRUE, words |-> << >>, text |-> << >>]
\* the names FSGs are registered under, and the name of each grammar
FsgNames == {"g1", "g2", "g3"}
fsg_model_name(g) == CASE g = 1 -> "g1" [] g = 2 -> "g2" [] OTHER -> "g3"
\* a NULL pointer to an FSG or to a lextree, a NULL name
NoFsg == 0
NullName == "NULL"

\* search->dag == NULL
NoDag == [null |-> TRUE, serial |-> 0, n_frames |-> -1, n_alloc |-> 0, nodes |-> {},
          links |-> {}, start |-> 0, end |-> 0]

Running == fsgs.fault = "none"

\* the decoder fsg_search_init returns for grammar g and -maxhmmpf mh
InitState(g, mh) ==
    [fsg |-> g, maxhmmpf |-> mh, frame |-> -1, bestscore |-> 0,
     bpidx_start |-> 0,
     beam |-> beam_orig, pbeam |-> pbeam_orig, wbeam |-> wbeam_orig,
     beam_factor |-> FactorOne, final |-> FALSE,
     pnode_active |-> << >>, pnode_active_next |-> << >>,
     n_hmm_eval |-> 0, history |-> << >>,
     frame_entries |-> EmptyFrameEntries,
     hmm |-> [p \in PnodeIds(g) |-> hmm_clear],
     dag |-> NoDag,
     fsgs |-> [k \in FsgNames |-> IF k = fsg_model_name(g) THEN g ELSE NoFsg],
     lextree |-> g,
     fault |-> "none"]

Init ==
    /\ \E g \in Grammars, mh \in MaxHmmpfValues : fsgs = InitState(g, mh)
    /\ pc = "idle"
    /\ senscr = NoScores
    /\ ret = -1
    /\ exit_res = NoExit
    /\ hyp_str = NoHyp
    /\ phases = << >>
    /\ last_op = "init"

Start ==
    /\ Running /\ pc = "idle"
    /\ fsgs' = fsg_search_start(fsgs)
    /\ ret' = 0
    /\ exit_res' = NoExit /\ hyp_str' = NoHyp
    /\ phases' = << >>
    /\ last_op' = "start"
    /\ UNCHANGED <<pc, senscr>>

Finish ==
    /\ Running /\ pc = "idle"
    /\ fsgs' = fsg_search_finish(fsgs)
    /\ ret' = 0
    /\ exit_res' = NoExit /\ hyp_str' = NoHyp
    /\ last_op' = "finish"
    /\ UNCHANGED <<pc, senscr, phases>>

\* acmod->n_feat_frame == 0: return 0
StepNoFrame ==
    /\ Running /\ pc = "idle"
    /\ fsgs' = StepNoFrameState(fsgs)
    /\ ret' = 0
    /\ exit_res' = NoExit /\ hyp_str' = NoHyp
    /\ last_op' = "step0"
    /\ UNCHANGED <<pc, senscr, phases>>

\* a frame is available: score it and mark the back-pointer table
StepBegin ==
    /\ Running /\ pc = "idle"
    /\ fsgs.frame < MaxFrame
    /\ \E scr \in [Phones -> SenScores] : senscr' = scr
    /\ fsgs' = MarkBpidxStart(fsgs)
    /\ pc' = StepOrder[1]
    /\ ret' = -1
    /\ exit_res' = NoExit /\ hyp_str' = NoHyp
    /\ phases' = << >>
    /\ last_op' = "step"

StepPhase ==
    /\ Running /\ pc # "idle"
    /\ fsgs' = PhaseEffect(fsgs, pc, senscr)
    /\ phases' = Append(phases, pc)
    /\ pc' = NextPhase(pc)
    /\ ret' = IF NextPhase(pc) = "idle" THEN 1 ELSE ret
    /\ senscr' = IF NextPhase(pc) = "idle" THEN NoScores ELSE senscr
    /\ UNCHANGED <<exit_res, hyp_str, last_op>>

(***************************************************************************)
(* The FSG registry: fsg_set_add, fsg_set_remove, fsg_set_select            *)
(***************************************************************************)
\* hash_table_enter keeps the value a key already has
fsg_set_add(f, name, fsg) ==
    LET key == IF name = NullName THEN fsg_model_name(fsg) ELSE name
    IN IF f.fsgs[key] = NoFsg THEN [f EXCEPT !.fsgs[key] = fsg] ELSE f

\* faulty variant: the lextree and the current FSG are never touched
fsg_set_remove_byname_Keep(f, key) == [f EXCEPT !.fsgs[key] = NoFsg]

fsg_set_remove_byname(f, key) ==
    LET oldfsg == f.fsgs[key]
        f1 == [f EXCEPT !.fsgs[key] = NoFsg]
    IN IF oldfsg = NoFsg THEN f
       ELSE IF f.fsg = oldfsg
            THEN [f1 EXCEPT !.lextree = NoFsg, !.fsg = NoFsg]
            ELSE f1

\* the keys fsg_set_remove's iteration over the table can stop at
FsgKeys(f, fsg) == {k \in FsgNames : f.fsgs[k] = fsg}

fsg_set_select(f, name) ==
    IF f.fsgs[name] = NoFsg THEN f ELSE [f EXCEPT !.fsg = f.fsgs[name]]

\* fsg_search_reinit: the lextree of the current FSG
fsg_search_reinit(f) == [f EXCEPT !.lextree = f.fsg]

\* one call of a registry function, or of fsg_search_reinit, outside an
\* utterance; ret is the FSG returned (NoFsg for NULL)
FsgSetNext ==
    /\ UNCHANGED <<pc, senscr, exit_res, hyp_str, phases>>
    /\ \/ \E name \in FsgNames \cup {NullName}, fsg \in Grammars :
              /\ fsgs' = fsg_set_add(fsgs, name, fsg)
              /\ ret' = fsgs'.fsgs[IF name = NullName THEN fsg_model_name(fsg)
                                   ELSE name]
              /\ last_op' = "fsg_set_add"
       \/ \E key \in FsgNames :
              /\ fsgs' = fsg_set_remove_byname(fsgs, key)
              /\ ret' = fsgs.fsgs[key]
              /\ last_op' = "fsg_set_remove_byname"
       \/ \E fsg \in Grammars :
              /\ IF FsgKeys(fsgs, fsg) = {}
                 THEN fsgs' = fsgs /\ ret' = NoFsg
                 ELSE \E key \in FsgKeys(fsgs, fsg) :
                         /\ fsgs' = fsg_set_remove_byname(fsgs, key)
                         /\ ret' = fsgs.fsgs[key]
              /\ last_op' = "fsg_set_remove"
       \/ \E name \in FsgNames :
              /\ fsgs' = fsg_set_select(fsgs, name)
              /\ ret' = fsgs.fsgs[name]
              /\ last_op' = "fsg_set_select"
       \/ /\ fsgs.fsg # NoFsg
          /\ fsgs' = fsg_search_reinit(fsgs)
          /\ ret' = 0
          /\ last_op' = "reinit"

SpecFsgSet == Init /\ [][FsgSetNext]_vars

(***************************************************************************)
(* fsg_search_find_exit, fsg_search_hyp                                    *)
(***************************************************************************)
RetExit(bpidx) == [kind |-> "ret", bpidx |-> bpidx]
SegvExit == [kind |-> "segv", bpidx |-> -1]
HangExit == [kind |-> "hang", bpidx |-> -1]

\* the value the scan returns once its loop has ended
ScanResult(besthist) == IF besthist = -1 THEN RetExit(-1) ELSE RetExit(besthist)

\* the final-state test on an entry with a link
EndsInFinal(f, fl) == fsg_link_to_state(f.fsg, fl) = final_state(f.fsg)

RECURSIVE ScanBest(_, _, _, _, _, _)
\* "Now find best word exit in this frame": the possible outcomes of the loop
\* entered at bpidx.  Reading to_state through a NULL link is an invalid access:
\* the process dies, or the read yields some value that is or is not the final
\* state.
ScanBest(f, bpidx, last_frm, bestscore, besthist, final) ==
    LET hist_entry == fsg_history_entry_get(f, bpidx)
        fl == hist_entry.fsglink
        score == hist_entry.score
        cont(bs, bh) ==
            IF bpidx - 1 < 0 THEN {ScanResult(bh)}
            ELSE IF fsg_history_entry_get(f, bpidx - 1).frame = last_frm
            THEN ScanBest(f, bpidx - 1, last_frm, bs, bh, final)
            ELSE {ScanResult(bh)}
    IN IF score > bestscore
       THEN IF ~final THEN cont(score, bpidx)
            ELSE IF fl = 0
            THEN {SegvExit} \cup cont(score, bpidx) \cup cont(bestscore, besthist)
            ELSE IF EndsInFinal(f, fl) THEN cont(score, bpidx)
            ELSE cont(bestscore, besthist)
       ELSE cont(bestscore, besthist)

\* the outcomes of fsg_search_find_exit(fsgs, frame_idx, final, ...)
fsg_search_find_exit(f, frame_idx0, final) ==
    LET frame_idx == IF frame_idx0 = -1 THEN f.frame - 1 ELSE frame_idx0
        bpidx == fsg_history_n_entries(f) - 1
    IN IF bpidx <= 0 THEN {RetExit(bpidx)}
       ELSE IF fsg_history_entry_get(f, bpidx).frame <= frame_idx
       THEN ScanBest(f, bpidx, fsg_history_entry_get(f, bpidx).frame,
                     INT_MIN, -1, final)
       ELSE {HangExit}

\* characters of a C string; NulChar is the terminating zero byte
NulChar == "NUL"
SpaceChar == " "

\* fsg_model_word_str(fsg, wid)
fsg_model_word_str(g, wid) ==
    IF g = 1
    THEN (IF wid = 0 THEN <<"A">>
          ELSE IF wid = 1 THEN <<"B", "A">>
          ELSE <<"<", "s", "i", "l", ">">>)
    ELSE IF g = 2 THEN <<"B", "A">>
    ELSE IF g = 3
    THEN (IF wid = 0 THEN <<"B", "A">>
          ELSE IF wid = 1 THEN <<"A">>
          ELSE <<"B">>)
    ELSE (IF wid = 0 THEN <<"A">> ELSE <<"B">>)

\* faulty variant: only null transitions are left out
HypSkip_NullOnly(g, wid) == wid < 0

\* the entries the two loops of fsg_search_hyp pass over
HypSkip(g, wid) == wid < 0 \/ fsg_model_is_filler(g, wid)

RECURSIVE HypWords(_, _)
\* the words of the chain from bp back to the root, first word first
HypWords(f, bp) ==
    IF bp <= 0 THEN << >>
    ELSE LET hist_entry == fsg_history_entry_get(f, bp)
             wid == fsg_link_wid(f.fsg, hist_entry.fsglink)
         IN IF HypSkip(f.fsg, wid)
            THEN HypWords(f, hist_entry.pred)
            ELSE Append(HypWords(f, hist_entry.pred), wid)

RECURSIVE HypLen(_, _)
\* the first loop: len, the bytes the words and their separators need
HypLen(f, bp) ==
    IF bp <= 0 THEN 0
    ELSE LET hist_entry == fsg_history_entry_get(f, bp)
             wid == fsg_link_wid(f.fsg, hist_entry.fsglink)
         IN IF HypSkip(f.fsg, wid) THEN HypLen(f, hist_entry.pred)
            ELSE Len(fsg_model_word_str(f.fsg, wid)) + 1
                 + HypLen(f, hist_entry.pred)

\* memcpy(buf + c, w, strlen(w)); c is a 0-based offset
HypMemcpy(buf, c, w) ==
    [i \in 1 .. Len(buf) |->
        IF i - 1 >= c /\ i - 1 < c + Len(w) THEN w[i - c] ELSE buf[i]]

RECURSIVE HypFill(_, _, _, _)
\* the second loop: the buffer filled from its end, c the write offset
HypFill(f, bp, buf, c) ==
    IF bp <= 0 THEN buf
    ELSE LET hist_entry == fsg_history_entry_get(f, bp)
             wid == fsg_link_wid(f.fsg, hist_entry.fsglink)
             w == fsg_model_word_str(f.fsg, wid)
             c1 == c - Len(w)
             buf1 == HypMemcpy(buf, c1, w)
         IN IF HypSkip(f.fsg, wid) THEN HypFill(f, hist_entry.pred, buf, c)
            ELSE IF c1 > 0
            THEN HypFill(f, hist_entry.pred,
                         [buf1 EXCEPT ![c1] = SpaceChar], c1 - 1)
            ELSE HypFill(f, hist_entry.pred, buf1, c1)

\* search->hyp_str after the two loops: ckd_calloc(1, len), then the fill
HypText(f, bpidx) ==
    LET len == HypLen(f, bpidx)
    IN HypFill(f, bpidx, [i \in 1 .. len |-> NulChar], len - 1)

\* the string fsg_search_hyp returns for the outcome x of find_exit
HypOf(f, x) ==
    IF x.kind # "ret" \/ x.bpidx <= 0 THEN NoHyp
    ELSE [null |-> FALSE, words |-> HypWords(f, x.bpidx),
          text |-> HypText(f, x.bpidx)]

Hyp ==
    /\ Running /\ pc = "idle"
    /\ \E x \in fsg_search_find_exit(fsgs, fsgs.frame, fsgs.final) :
          /\ exit_res' = x
          /\ hyp_str' = HypOf(fsgs, x)
          /\ fsgs' = IF x.kind = "ret" THEN fsgs ELSE SetFault(fsgs, x.kind)
    /\ ret' = -1
    /\ last_op' = "hyp"
    /\ UNCHANGED <<pc, senscr, phases>>

(***************************************************************************)
(* fsg_search_seg_iter, fsg_seg_next (bestpath off).  The iterator is the   *)
(* record [null, hist, cur, seg]: hist the history indices of the chain,   *)
(* cur the position in hist counted from 0, seg the fields of the segment. *)
(***************************************************************************)
\* a NULL ps_seg_t pointer
NoSeg == [null |-> TRUE, hist |-> << >>, cur |-> 0, seg |-> << >>]

\* faulty variant: the start frame is not brought down to the end frame
fsg_seg_bp2itor_NoClamp(f, bp) ==
    LET e == fsg_history_entry_get(f, bp)
        lscr == fsg_link_logs2prob(f.fsg, e.fsglink)
    IN [wid |-> fsg_link_wid(f.fsg, e.fsglink), ef |-> e.frame,
        sf |-> IF e.pred >= 0 THEN fsg_history_entry_get(f, e.pred).frame + 1
               ELSE 0,
        prob |-> 0, lback |-> 1, lscr |-> lscr,
        ascr |-> IF e.pred >= 0
                 THEN e.score - fsg_history_entry_get(f, e.pred).score - lscr
                 ELSE e.score - lscr]

\* the segment fields fsg_seg_bp2itor sets for the entry at index bp
fsg_seg_bp2itor(f, bp) ==
    LET e == fsg_history_entry_get(f, bp)
        sf == IF e.pred >= 0 THEN fsg_history_entry_get(f, e.pred).frame + 1
              ELSE 0
        lscr == fsg_link_logs2prob(f.fsg, e.fsglink)
    IN [wid |-> fsg_link_wid(f.fsg, e.fsglink), ef |-> e.frame,
        sf |-> IF sf > e.frame THEN e.frame ELSE sf,
        prob |-> 0, lback |-> 1, lscr |-> lscr,
        ascr |-> IF e.pred >= 0
                 THEN e.score - fsg_history_entry_get(f, e.pred).score - lscr
                 ELSE e.score - lscr]

RECURSIVE SegHist(_, _)
\* itor->hist: the chain from bp filled from the last element backwards
SegHist(f, bp) ==
    IF bp <= 0 THEN << >>
    ELSE Append(SegHist(f, fsg_history_entry_get(f, bp).pred), bp)

\* the iterator fsg_search_seg_iter returns for the outcome x of find_exit
fsg_search_seg_iter(f, x) ==
    IF x.kind # "ret" \/ x.bpidx <= 0 THEN NoSeg
    ELSE LET hist == SegHist(f, x.bpidx)
         IN IF Len(hist) = 0 THEN NoSeg
            ELSE [null |-> FALSE, hist |-> hist, cur |-> 0,
                  seg |-> fsg_seg_bp2itor(f, hist[1])]

\* the iterator fsg_seg_next returns
fsg_seg_next(f, itor) ==
    IF itor.cur + 1 = Len(itor.hist) THEN NoSeg
    ELSE [itor EXCEPT !.cur = @ + 1,
                      !.seg = fsg_seg_bp2itor(f, itor.hist[itor.cur + 2])]

\* hyp_str holds the iterator
SegIter ==
    /\ Running /\ pc = "idle"
    /\ \E x \in fsg_search_find_exit(fsgs, fsgs.frame, fsgs.final) :
          /\ exit_res' = x
          /\ hyp_str' = fsg_search_seg_iter(fsgs, x)
          /\ fsgs' = IF x.kind = "ret" THEN fsgs ELSE SetFault(fsgs, x.kind)
    /\ ret' = -1
    /\ last_op' = "seg_iter"
    /\ UNCHANGED <<pc, senscr, phases>>

SegNext ==
    /\ Running /\ pc = "idle"
    /\ last_op \in {"seg_iter", "seg_next"} /\ ~hyp_str.null
    /\ hyp_str' = fsg_seg_next(fsgs, hyp_str)
    /\ last_op' = "seg_next"
    /\ UNCHANGED <<fsgs, pc, senscr, ret, exit_res, phases>>

(***************************************************************************)
(* fsg_search_lattice.  A lattice (ps_lattice_t) is the record dag: nodes  *)
(* is the set of its nodes, each with the id it was allocated under (0 is  *)
(* NULL), links the set of its links (from, to, ascr, ef); the entries of  *)
(* a node are the links into it, its exits the links out of it.            *)
(***************************************************************************)
\* fsg_model_word_add(fsg, "<s>") and (fsg, "</s>"): ids no word of a grammar has
StartWordId == 10
EndWordId == 11
\* dict_to_id(dict, fsg_model_word_str(fsg, wid)): dictionary ids are the
\* grammar's ids moved by DictBase
DictBase == 100
dict_to_id(g, wid) == wid + DictBase
dict_filler_word(g, dwid) == fsg_model_is_filler(g, dwid - DictBase)

\* fsg_model_trans(fsg, s, d): the non-null arcs s -> d
fsg_model_trans(g, s, d) ==
    {l \in LinkIds(g) : /\ Links(g)[l].wid # -1
                         /\ Links(g)[l].from_state = s
                         /\ Links(g)[l].to_state = d}

\* a new lattice object: serial numbers the lattices allocated so far
ps_lattice_init_search(f) ==
    [null |-> FALSE, serial |-> f.dag.serial + 1, n_frames |-> f.frame,
     n_alloc |-> 0, nodes |-> {}, links |-> {}, start |-> 0, end |-> 0]

LatNode(dag, id) == CHOOSE n \in dag.nodes : n.id = id
LatEntries(dag, id) == {x \in dag.links : x.to = id}
LatExits(dag, id) == {x \in dag.links : x.from = id}

find_node(dag, sf, wid) ==
    LET c == {n \in dag.nodes : n.sf = sf /\ n.wid = wid}
    IN IF c = {} THEN 0 ELSE (CHOOSE n \in c : TRUE).id

\* faulty variant: the last end frame of a node that exists is left alone
new_node_NoLef(dag, sf, ef, wid, ascr) ==
    LET id == find_node(dag, sf, wid)
    IN IF id # 0
       THEN LET n == LatNode(dag, id)
                n1 == [n EXCEPT
                         !.fef = IF n.fef = -1 \/ n.fef > ef THEN ef ELSE n.fef,
                         !.best_exit = IF n.best_exit < ascr THEN ascr
                                       ELSE n.best_exit]
            IN [dag |-> [dag EXCEPT !.nodes = (@ \ {n}) \cup {n1}], id |-> id]
       ELSE [dag |-> [dag EXCEPT
                        !.n_alloc = @ + 1,
                        !.nodes = @ \cup
                            {[id |-> dag.n_alloc + 1, wid |-> wid, sf |-> sf,
                              fef |-> ef, lef |-> ef, reachable |-> FALSE,
                              best_exit |-> ascr]}],
             id |-> dag.n_alloc + 1]

\* new_node: the lattice after the call and the id of the node returned
new_node(dag, sf, ef, wid, ascr) ==
    LET id == find_node(dag, sf, wid)
    IN IF id # 0
       THEN LET n == LatNode(dag, id)
                n1 == [n EXCEPT
                         !.lef = IF n.lef = -1 \/ n.lef < ef THEN ef ELSE n.lef,
                         !.fef = IF n.fef = -1 \/ n.fef > ef THEN ef ELSE n.fef,
                         !.best_exit = IF n.best_exit < ascr THEN ascr
                                       ELSE n.best_exit]
            IN [dag |-> [dag EXCEPT !.nodes = (@ \ {n}) \cup {n1}], id |-> id]
       ELSE [dag |-> [dag EXCEPT
                        !.n_alloc = @ + 1,
                        !.nodes = @ \cup
                            {[id |-> dag.n_alloc + 1, wid |-> wid, sf |-> sf,
                              fef |-> ef, lef |-> ef, reachable |-> FALSE,
                              best_exit |-> ascr]}],
             id |-> dag.n_alloc + 1]

\* ps_lattice_link: a new link, or the better score on the one that exists
ps_lattice_link(dag, from, to, score, ef) ==
    LET c == {x \in dag.links : x.from = from /\ x.to = to}
    IN IF c = {}
       THEN [dag EXCEPT !.links = @ \cup
                {[from |-> from, to |-> to, ascr |-> score, ef |-> ef]}]
       ELSE LET x == CHOOSE y \in c : TRUE
            IN IF score > x.ascr
               THEN [dag EXCEPT !.links = (@ \ {x}) \cup
                        {[x EXCEPT !.ascr = score, !.ef = ef]}]
               ELSE dag

\* "Skip null transitions"
LatSkip(f, fh) == fh.fsglink = 0 \/ fsg_link_wid(f.fsg, fh.fsglink) = -1

\* start frame and link score of the entry fh ("if (fh->pred)")
LatSf(f, fh) ==
    IF fh.pred # 0 THEN fsg_history_entry_get(f, fh.pred).frame + 1 ELSE 0
LatAscr(f, fh) ==
    IF fh.pred # 0 THEN fh.score - fsg_history_entry_get(f, fh.pred).score
    ELSE fh.score

RECURSIVE LatPassNodes(_, _, _, _)
\* the first loop over the history: one node per (word, start frame)
LatPassNodes(f, dag, i, n) ==
    IF i >= n THEN dag
    ELSE LET fh == fsg_history_entry_get(f, i)
         IN IF LatSkip(f, fh) THEN LatPassNodes(f, dag, i + 1, n)
            ELSE LatPassNodes(f,
                     new_node(dag, LatSf(f, fh), fh.frame,
                              fsg_link_wid(f.fsg, fh.fsglink),
                              LatAscr(f, fh)).dag,
                     i + 1, n)

\* the arcs the second loop looks at for an entry that ends in state s: the
\* non-null arcs out of s, and those out of every state one null arc away
LatArcs(g, s) ==
    UNION {fsg_model_trans(g, s, j) \cup
              (IF fsg_model_null_trans(g, s, j) # 0
               THEN UNION {fsg_model_trans(g, j, k) : k \in 0 .. n_state(g) - 1}
               ELSE {}) : j \in 0 .. n_state(g) - 1}

RECURSIVE LatLinkTo(_, _, _, _, _)
\* ps_lattice_link from src to every node of dests
LatLinkTo(dag, src, dests, ascr, ef) ==
    IF dests = {} THEN dag
    ELSE LET d == CHOOSE x \in dests : \A y \in dests : x <= y
         IN LatLinkTo(ps_lattice_link(dag, src, d, ascr, ef), src,
                      dests \ {d}, ascr, ef)

RECURSIVE LatPassLinks_SameFrame(_, _, _, _)
\* faulty variant: the destinations are looked up in the frame the entry
\* ends in
LatPassLinks_SameFrame(f, dag, i, n) ==
    IF i >= n THEN dag
    ELSE LET fh == fsg_history_entry_get(f, i)
         IN IF LatSkip(f, fh) THEN LatPassLinks_SameFrame(f, dag, i + 1, n)
            ELSE LET src == find_node(dag, LatSf(f, fh),
                                      fsg_link_wid(f.fsg, fh.fsglink))
                     dests == {find_node(dag, fh.frame,
                                         fsg_link_wid(f.fsg, l)) :
                                  l \in LatArcs(f.fsg,
                                      fsg_link_to_state(f.fsg, fh.fsglink))}
                              \ {0}
                 IN LatPassLinks_SameFrame(f,
                        LatLinkTo(dag, src, dests, LatAscr(f, fh), fh.frame),
                        i + 1, n)

RECURSIVE LatPassLinks(_, _, _, _)
\* the second loop over the history: links to the nodes that exist
LatPassLinks(f, dag, i, n) ==
    IF i >= n THEN dag
    ELSE LET fh == fsg_history_entry_get(f, i)
         IN IF LatSkip(f, fh) THEN LatPassLinks(f, dag, i + 1, n)
            ELSE LET src == find_node(dag, LatSf(f, fh),
                                      fsg_link_wid(f.fsg, fh.fsglink))
                     dests == {find_node(dag, fh.frame + 1,
                                         fsg_link_wid(f.fsg, l)) :
                                  l \in LatArcs(f.fsg,
                                      fsg_link_to_state(f.fsg, fh.fsglink))}
                              \ {0}
                 IN LatPassLinks(f,
                        LatLinkTo(dag, src, dests, LatAscr(f, fh), fh.frame),
                        i + 1, n)

\* faulty variant: the first of several candidates is taken as the start
find_start_node_First(f, dag) ==
    LET start == {n.id : n \in {m \in dag.nodes :
                               m.sf = 0 /\ LatExits(dag, m.id) # {}}}
    IN IF Cardinality(start) >= 1
       THEN [dag EXCEPT !.start = CHOOSE x \in start : \A y \in start : x <= y]
       ELSE LET r == new_node(dag, 0, 0, StartWordId, 0)
            IN [LatLinkTo(r.dag, r.id, start, 0, 0) EXCEPT !.start = r.id]

\* find_start_node: the lattice with dag.start set
find_start_node(f, dag) ==
    LET start == {n.id : n \in {m \in dag.nodes :
                               m.sf = 0 /\ LatExits(dag, m.id) # {}}}
    IN IF Cardinality(start) = 1
       THEN [dag EXCEPT !.start = CHOOSE x \in start : TRUE]
       ELSE LET r == new_node(dag, 0, 0, StartWordId, 0)
            IN [LatLinkTo(r.dag, r.id, start, 0, 0) EXCEPT !.start = r.id]

RECURSIVE LatLinkFrom(_, _, _, _)
\* ps_lattice_link from every node of srcs to node, with its best exit score
LatLinkFrom(dag, srcs, node, ef) ==
    IF srcs = {} THEN dag
    ELSE LET src == CHOOSE x \in srcs : \A y \in srcs : x <= y
         IN LatLinkFrom(ps_lattice_link(dag, src, node,
                                        LatNode(dag, src).best_exit, ef),
                        srcs \ {src}, node, ef)

\* find_end_node: the lattice with dag.end set
find_end_node(f, dag) ==
    LET end == {n.id : n \in {m \in dag.nodes :
                             m.lef = f.frame - 1 /\ LatEntries(dag, m.id) # {}}}
    IN IF Cardinality(end) = 1
       THEN [dag EXCEPT !.end = CHOOSE x \in end : TRUE]
       ELSE LET r == new_node(dag, f.frame, f.frame, EndWordId, 0)
            IN [LatLinkFrom(r.dag, end, r.id, f.frame) EXCEPT !.end = r.id]

\* "Convert word IDs from FSG to dictionary"
LatConvert(f, dag) ==
    [dag EXCEPT !.nodes = {[n EXCEPT !.wid = dict_to_id(f.fsg, n.wid)] :
                              n \in dag.nodes}]

\* the nodes ids with their reachable flag set
LatMark(dag, ids) ==
    [dag EXCEPT !.nodes = {IF n.id \in ids THEN [n EXCEPT !.reachable = TRUE]
                           ELSE n : n \in dag.nodes}]

RECURSIVE MarkLoop(_, _)
\* the loop of mark_reachable on the list q
MarkLoop(dag, q) ==
    IF q = << >> THEN dag
    ELSE LET node == Head(q)
             next == {x.from : x \in LatEntries(dag, node)}
             new == {p \in next : ~LatNode(dag, p).reachable}
         IN MarkLoop(LatMark(dag, new), ListOf(new) \o Tail(q))

\* faulty variant: every node is marked, whether the end is reached from it
\* or not
mark_reachable_All(dag, end) == LatMark(dag, {n.id : n \in dag.nodes})

mark_reachable(dag, end) == MarkLoop(LatMark(dag, {end}), <<end>>)

\* ps_lattice_delete_unreachable
ps_lattice_delete_unreachable(dag) ==
    LET keep == {n.id : n \in {m \in dag.nodes : m.reachable}}
    IN [dag EXCEPT !.nodes = {n \in dag.nodes : n.id \in keep},
                   !.links = {x \in dag.links :
                                 x.from \in keep /\ x.to \in keep}]

RECURSIVE LatBypass(_, _, _)
\* ps_lattice_bypass_fillers: a link around every filler node between two
\* links of pairs, the filler penalty left out of the score
LatBypass(f, dag, pairs) ==
    IF pairs = {} THEN dag
    ELSE LET pr == CHOOSE x \in pairs : TRUE
         IN LatBypass(f,
                ps_lattice_link(dag, pr[1].from, pr[2].to,
                                pr[1].ascr + pr[2].ascr, pr[2].ef),
                pairs \ {pr})

ps_lattice_bypass_fillers(f, dag) ==
    LatBypass(f, dag,
        {pr \in dag.links \X dag.links :
            /\ pr[1].to = pr[2].from
            /\ pr[1].to \notin {dag.start, dag.end}
            /\ dict_filler_word(f.fsg, LatNode(dag, pr[1].to).wid)})

\* "Check to see if a lattice has previously been created over the same
\* number of frames"
LatCached(f) == ~f.dag.null /\ f.dag.n_frames = f.frame

\* fsg_search_lattice: the decoder with search->dag set
fsg_search_lattice(f) ==
    IF LatCached(f) THEN f
    ELSE LET n == fsg_history_n_entries(f)
             d1 == LatPassNodes(f, ps_lattice_init_search(f), 0, n)
             d2 == LatPassLinks(f, d1, 0, n)
             d3 == find_start_node(f, d2)
             d4 == find_end_node(f, d3)
             d5 == LatConvert(f, d4)
             d6 == mark_reachable(d5, d5.end)
             d7 == ps_lattice_delete_unreachable(d6)
         IN [f EXCEPT !.dag = ps_lattice_bypass_fillers(f, d7)]

Lattice ==
    /\ Running /\ pc = "idle"
    /\ LatCached(fsgs) \/ fsgs.dag.serial < MaxLattices
    /\ fsgs' = fsg_search_lattice(fsgs)
    /\ ret' = -1
    /\ exit_res' = NoExit /\ hyp_str' = NoHyp
    /\ last_op' = "lattice"
    /\ UNCHANGED <<pc, senscr, phases>>

Next ==
    \/ Start
    \/ Finish
    \/ StepNoFrame
    \/ StepBegin
    \/ StepPhase
    \/ Hyp

Spec == Init /\ [][Next]_vars

\* decoding followed by the construction of a lattice; nothing is decoded
\* after a lattice has been built
LatticeNext ==
    \/ fsgs.dag.null /\ Next
    \/ Lattice

SpecLattice == Init /\ [][LatticeNext]_vars

\* the same for a decoder of the grammar with a choice of first word
LatticeChoiceInit ==
    /\ \E mh \in MaxHmmpfValues : fsgs = InitState(ChoiceGrammar, mh)
    /\ pc = "idle"
    /\ senscr = NoScores
    /\ ret = -1
    /\ exit_res = NoExit
    /\ hyp_str = NoHyp
    /\ phases = << >>
    /\ last_op = "init"

SpecLatticeChoice == LatticeChoiceInit /\ [][LatticeNext]_vars

\* decoding with segmentation iterators taken and run through between the
\* operations
SegSpecNext ==
    \/ Next
    \/ SegIter
    \/ SegNext

SpecSeg == Init /\ [][SegSpecNext]_vars

\* decoding with calls of fsg_search_lattice between the operations, for one
\* grammar and without the cap on the HMMs evaluated
LC_Grammar == 2

LC_Init ==
    /\ fsgs = InitState(LC_Grammar, -1)
    /\ pc = "idle" /\ senscr = NoScores /\ ret = -1
    /\ exit_res = NoExit /\ hyp_str = NoHyp
    /\ phases = << >> /\ last_op = "init"

LatticeCacheNext ==
    \/ Next
    \/ Lattice

SpecLatticeCache == LC_Init /\ [][LatticeCacheNext]_vars

(***************************************************************************)
(* fsg_search_find_exit as a function of its arguments: the history        *)
(* content, frame_idx (the callers pass fsgs->frame) and final are drawn   *)
(* from bounded sets, and the call is applied to them.                     *)
(***************************************************************************)
\* entries after the dummy in a history given to fsg_search_find_exit
FE_MaxEntries == 2
\* largest frame number of such an entry, and of frame_idx
FE_MaxFrame == 2

\* histories: the dummy entry, then up to FE_MaxEntries word exits chained by
\* pred, with frames that do not decrease
FE_Histories(g) ==
    LET E(i) == {HistEntry(l, frm, sc, i - 1, SIL, AllCtxt) :
                    l \in LinkIds(g), frm \in 0 .. FE_MaxFrame, sc \in {-1, -2}}
        Tails == UNION {[1 .. n -> UNION {E(i) : i \in 1 .. FE_MaxEntries}] :
                           n \in 0 .. FE_MaxEntries}
    IN {<<HistEntry(0, -1, 0, -1, SIL, AllCtxt)>> \o t : t \in
           {t \in Tails : \A i \in 1 .. Len(t) :
                             /\ t[i].pred = i - 1
                             /\ i > 1 => t[i - 1].frame <= t[i].frame}}

FE_Init ==
    /\ \E g \in Grammars : \E h \in FE_Histories(g),
                              frm \in 0 .. FE_MaxFrame + 1, fin \in BOOLEAN :
          fsgs = [InitState(g, maxhmmpf) EXCEPT !.history = h, !.frame = frm,
                                                 !.final = fin]
    /\ pc = "idle"
    /\ senscr = NoScores
    /\ ret = -1
    /\ exit_res = NoExit
    /\ hyp_str = NoHyp
    /\ phases = << >>
    /\ last_op = "init"

FE_Next == Hyp

SpecFindExit == FE_Init /\ [][FE_Next]_vars

(***************************************************************************)
(* Properties                                                              *)
(***************************************************************************)
Elems(list) == {list[i] : i \in 1 .. Len(list)}
NoDup(list) == \A i, j \in 1 .. Len(list) : i # j => list[i] # list[j]
AllPnodes == PnodeIds(fsgs.fsg)
StepReturned1 == pc = "idle" /\ ret = 1 /\ fsgs.fault = "none"

\* C1: after a step that returned 1, pnode_active_next is empty and
\* pnode_active holds exactly the pnodes whose HMM frame equals the (just
\* incremented) frame of the decoder.
C1_ActiveSetAfterStep ==
    StepReturned1 =>
        /\ fsgs.pnode_active_next = << >>
        /\ Elems(fsgs.pnode_active) =
               {p \in AllPnodes : fsgs.hmm[p].frame = fsgs.frame}

\* a step has returned with two active pnodes and one that is not active
C1_Witness ==
    /\ StepReturned1 /\ fsgs.frame >= 2
    /\ Len(fsgs.pnode_active) >= 2
    /\ \E p \in AllPnodes : fsgs.hmm[p].frame = -1

\* C2: no pnode appears more than once in pnode_active or in
\* pnode_active_next, in every reachable state.
C2_NoDoubleInsertion ==
    NoDup(fsgs.pnode_active) /\ NoDup(fsgs.pnode_active_next)

\* after pruning, a pnode that was active in this frame has survived the state
\* beam and has also been entered by a parent in the same frame (its entering
\* score is no longer the score its evaluation left)
C2_Witness ==
    /\ pc = "commit1"
    /\ \E p \in Elems(fsgs.pnode_active) \cap Elems(fsgs.pnode_active_next) :
          /\ fsgs.hmm[p].bestscore >= fsgs.bestscore + fsgs.beam
          /\ fsgs.hmm[p].in_score > fsgs.hmm[p].bestscore

\* C3 as stated: every pnode of the active sets has HMM frame F or F+1, F the
\* frame of the decoder, at all times during and between steps, and the frame
\* assertions of evaluation, pruning and deactivation never fail.
C3_Original ==
    /\ \A p \in Elems(fsgs.pnode_active) :
          fsgs.hmm[p].frame \in {fsgs.frame, fsgs.frame + 1}
    /\ \A p \in Elems(fsgs.pnode_active_next) :
          fsgs.hmm[p].frame = fsgs.frame + 1
    /\ fsgs.fault \notin {"assert_eval", "assert_carried", "assert_deact"}

\* C3 (amended): every pnode of pnode_active has HMM frame F or F+1 and every
\* pnode of pnode_active_next has F+1, except that between the deactivation
\* loop and the swap at the end of a step the pnodes of pnode_active that are
\* not carried over have been reset (frame -1); the frame assertions of
\* evaluation, pruning and deactivation never fail.
C3_ActiveFrames ==
    /\ \A p \in Elems(fsgs.pnode_active) :
          IF pc = "swap"
          THEN fsgs.hmm[p].frame \in {-1, fsgs.frame + 1}
          ELSE fsgs.hmm[p].frame \in {fsgs.frame, fsgs.frame + 1}
    /\ pc \in {"idle", "eval"} =>
          \A p \in Elems(fsgs.pnode_active) : fsgs.hmm[p].frame = fsgs.frame
    /\ \A p \in Elems(fsgs.pnode_active_next) :
          fsgs.hmm[p].frame = fsgs.frame + 1
    /\ fsgs.fault \notin {"assert_eval", "assert_carried", "assert_deact"}

\* the deactivation loop has run: one pnode of pnode_active has been reset,
\* another is carried to the next frame
C3_Witness ==
    /\ pc = "swap"
    /\ \E p, q \in Elems(fsgs.pnode_active) :
          /\ fsgs.hmm[p].frame = -1
          /\ fsgs.hmm[q].frame = fsgs.frame + 1

\* C4: every history entry has pred = -1 or 0 <= pred < its own index; only
\* the dummy entry at index 0 has pred = -1, so every chain ends there.
C4_PredBelowIndex ==
    \A i \in 0 .. fsg_history_n_entries(fsgs) - 1 :
        LET e == fsg_history_entry_get(fsgs, i)
        IN /\ e.pred = -1 \/ (0 <= e.pred /\ e.pred < i)
           /\ e.pred = -1 <=> i = 0
           /\ i = 0 => e.fsglink = 0

\* the history holds a word exit and a null-transition entry made from it
C4_Witness ==
    \E i, j \in 1 .. fsg_history_n_entries(fsgs) - 1 :
        LET e == fsg_history_entry_get(fsgs, i)
            n == fsg_history_entry_get(fsgs, j)
        IN /\ fsg_link_wid(fsgs.fsg, e.fsglink) >= 0
           /\ fsg_link_wid(fsgs.fsg, n.fsglink) = -1
           /\ n.pred = i /\ e.pred >= 1

\* C5: except across fsg_search_start the history never shrinks and
\* bpidx_start never decreases; a step sets bpidx_start to the history size
\* when it begins and no later phase of that step changes it.
C5_BpidxStartMonotone ==
    [][ /\ last_op' # "start" =>
              /\ fsg_history_n_entries(fsgs') >= fsg_history_n_entries(fsgs)
              /\ fsgs'.bpidx_start >= fsgs.bpidx_start
        /\ pc # "idle" => fsgs'.bpidx_start = fsgs.bpidx_start
        /\ (pc = "idle" /\ pc' # "idle") =>
              fsgs'.bpidx_start = fsg_history_n_entries(fsgs) ]_vars

\* a later step of an utterance has moved bpidx_start up and added entries
C5_Witness ==
    /\ StepReturned1
    /\ fsgs.bpidx_start >= 2
    /\ fsg_history_n_entries(fsgs) > fsgs.bpidx_start

\* C6: the phases of a step run in the order evaluation, prune/propagate,
\* commit, null propagation, commit, cross-word transitions, deactivation,
\* swap with frame increment; the entries of the frame are committed exactly
\* at the two commits, so none is pending when cross-word transitions run.
C6_PhaseOrder ==
    LET order == << "eval", "prune", "commit1", "null", "commit2", "xword",
                    "deact", "swap" >>
    IN /\ Len(phases) <= Len(order)
       /\ phases = SubSeq(order, 1, Len(phases))
       /\ pc # "idle" => pc = order[Len(phases) + 1]
       /\ (pc = "idle" /\ ret = 1) => phases = order
       /\ pc \notin {"commit1", "commit2"} =>
             fsgs.frame_entries = EmptyFrameEntries

\* cross-word transitions are about to run on entries of both commits
C6_Witness ==
    /\ pc = "xword"
    /\ \E i, j \in fsgs.bpidx_start .. fsg_history_n_entries(fsgs) - 1 :
          /\ fsg_link_wid(fsgs.fsg, fsg_history_entry_get(fsgs, i).fsglink) >= 0
          /\ fsg_link_wid(fsgs.fsg, fsg_history_entry_get(fsgs, j).fsglink) = -1

\* C7: a step without a new frame returns 0 and changes nothing in the
\* decoder; a step with a frame returns 1 and increments frame by exactly
\* one, at its end.
C7_StepReturn ==
    [][ /\ last_op' = "step0" => (fsgs' = fsgs /\ ret' = 0)
        /\ (pc # "idle" /\ pc' = "idle") =>
              (ret' = 1 /\ fsgs'.frame = fsgs.frame + 1)
        /\ pc' # "idle" => (fsgs'.frame = fsgs.frame /\ ret' # 1) ]_vars

\* a step found no frame in the middle of an utterance
C7_Witness ==
    /\ last_op = "step0" /\ ret = 0
    /\ fsgs.pnode_active # << >>
    /\ fsg_history_n_entries(fsgs) > fsgs.bpidx_start

\* the dummy entry fsg_search_start puts at index 0
DummyEntry == HistEntry(0, -1, 0, -1, SIL, AllCtxt)

\* C8: after fsg_search_start returns, beam_factor is 1.0 and the beams have
\* their original values, final is false, frame = 0, bpidx_start = 0,
\* pnode_active_next is empty and history index 0 holds the dummy entry.
C8_StartPostcondition ==
    (last_op = "start" /\ fsgs.fault = "none") =>
        /\ fsgs.beam_factor = FactorOne
        /\ fsgs.beam = beam_orig
        /\ fsgs.pbeam = pbeam_orig
        /\ fsgs.wbeam = wbeam_orig
        /\ ~fsgs.final
        /\ fsgs.frame = 0
        /\ fsgs.bpidx_start = 0
        /\ fsgs.pnode_active_next = << >>
        /\ fsg_history_n_entries(fsgs) >= 1
        /\ fsg_history_entry_get(fsgs, 0) = DummyEntry

\* start has returned with the dummy entry, a null-transition entry and an
\* active root
C8_Witness ==
    /\ last_op = "start" /\ fsgs.fault = "none"
    /\ fsg_history_n_entries(fsgs) >= 2
    /\ fsgs.pnode_active # << >>

\* fsg_search_finish directly after fsg_search_start: no step in between
StartThenFinish ==
    fsgs.final /\ fsgs.frame = 0 /\ fsg_history_n_entries(fsgs) >= 1

\* C9: start followed immediately by finish yields no hypothesis (find_exit
\* returns a bpidx <= 0, hyp returns null) and does not crash, for every FSG.
C9_NoHypAfterStartFinish ==
    (last_op = "hyp" /\ StartThenFinish) =>
        /\ exit_res.kind = "ret"
        /\ exit_res.bpidx <= 0
        /\ hyp_str.null

\* find_exit as C10 describes it: the entries that qualify and the result
C10_SearchFrames(frame_idx) ==
    {fsg_history_entry_get(fsgs, i).frame :
        i \in 0 .. fsg_history_n_entries(fsgs) - 1} \cap (-1 .. frame_idx)
C10_Qualifying(frame_idx, final) ==
    IF C10_SearchFrames(frame_idx) = {} THEN {}
    ELSE LET frm == CHOOSE x \in C10_SearchFrames(frame_idx) :
                        \A y \in C10_SearchFrames(frame_idx) : y <= x
         IN {i \in 0 .. fsg_history_n_entries(fsgs) - 1 :
                LET e == fsg_history_entry_get(fsgs, i)
                IN /\ e.frame = frm
                   /\ final => (e.fsglink # 0 /\ EndsInFinal(fsgs, e.fsglink))}

\* C10: find_exit returns the index of an entry of maximum score among all
\* entries of the search frame (those ending in the final state when final),
\* and -1 when no entry qualifies.
C10_FindExitResult ==
    last_op = "hyp" =>
        LET q == C10_Qualifying(fsgs.frame, fsgs.final)
        IN /\ exit_res.kind = "ret"
           /\ IF q = {} THEN exit_res.bpidx = -1
              ELSE /\ exit_res.bpidx \in q
                   /\ \A i \in q : fsg_history_entry_get(fsgs, i).score
                          <= fsg_history_entry_get(fsgs, exit_res.bpidx).score

(***************************************************************************)
(* fsg_search_hmm_eval as a function of the active set and the beam        *)
(* factor: an active set is drawn and evaluated, frame after frame, so     *)
(* that runs of frames over the cap of any length occur.                   *)
(***************************************************************************)
BE_Init ==
    /\ \E g \in Grammars, mh \in MaxHmmpfValues :
          fsgs = fsg_search_start(InitState(g, mh))
    /\ pc = "idle"
    /\ senscr = NoScores
    /\ ret = -1
    /\ exit_res = NoExit
    /\ hyp_str = NoHyp
    /\ phases = << >>
    /\ last_op = "init"

\* the frame begins with the first n pnodes active and the counter of
\* evaluated HMMs at zero
BE_Activate ==
    /\ Running /\ pc = "idle"
    /\ \E n \in 0 .. fsg_lextree_n_pnode(fsgs.fsg) : LET S == 1 .. n IN
          fsgs' = [fsgs EXCEPT
                      !.pnode_active = ListOf(S),
                      !.n_hmm_eval = 0,
                      !.hmm = [p \in PnodeIds(fsgs.fsg) |->
                                  IF p \in S
                                  THEN hmm_enter(hmm_clear, 0, 0, fsgs.frame)
                                  ELSE hmm_clear]]
    /\ pc' = "eval"
    /\ last_op' = "step"
    /\ UNCHANGED <<senscr, ret, exit_res, hyp_str, phases>>

\* fsg_search_hmm_eval on that active set
BE_Eval ==
    /\ Running /\ pc = "eval"
    /\ fsgs' = fsg_search_hmm_eval(fsgs, senscr)
    /\ pc' = "idle"
    /\ UNCHANGED <<senscr, ret, exit_res, hyp_str, phases, last_op>>

BE_Next == BE_Activate \/ BE_Eval

SpecBeam == BE_Init /\ [][BE_Next]_vars

RECURSIVE C12_Chain(_)
\* the history indices on the back-pointer chain from bp to the root
C12_Chain(bp) ==
    IF bp <= 0 THEN {}
    ELSE {bp} \cup C12_Chain(fsg_history_entry_get(fsgs, bp).pred)

\* the entries of the chain that carry a word which is not a filler
C12_WordEntries(bp) ==
    {i \in C12_Chain(bp) :
        LET wid == fsg_link_wid(fsgs.fsg, fsg_history_entry_get(fsgs, i).fsglink)
        IN wid # -1 /\ ~fsg_model_is_filler(fsgs.fsg, wid)}

RECURSIVE C12_Join(_)
\* the words of the entries S, earliest first, separated by single spaces
C12_Join(S) ==
    IF S = {} THEN << >>
    ELSE LET m == CHOOSE x \in S : \A y \in S : y <= x
             w == fsg_model_word_str(fsgs.fsg,
                      fsg_link_wid(fsgs.fsg, fsg_history_entry_get(fsgs, m).fsglink))
         IN IF S = {m} THEN w ELSE C12_Join(S \ {m}) \o <<SpaceChar>> \o w

EvalStep == pc = "eval" /\ pc' # "eval"
EvalN == Len(fsgs.pnode_active)
OverCap == fsgs.maxhmmpf # -1 /\ EvalN > fsgs.maxhmmpf

\* b is orig * bf (bf in millionths) with the fraction cut off; orig <= 0
C13_Scaled(b, orig, bf) ==
    /\ b <= 0
    /\ (-b) * FactorOne <= (-orig) * bf
    /\ (-orig) * bf < (1 - b) * FactorOne

\* the beams and the factor after the step are those before it
C13_Kept ==
    /\ fsgs'.beam_factor = fsgs.beam_factor
    /\ fsgs'.beam = fsgs.beam
    /\ fsgs'.pbeam = fsgs.pbeam
    /\ fsgs'.wbeam = fsgs.wbeam

\* the factor is 1.0 and the beams are the original ones after the step
C13_Reset ==
    /\ fsgs'.beam_factor = FactorOne
    /\ fsgs'.beam = beam_orig
    /\ fsgs'.pbeam = pbeam_orig
    /\ fsgs'.wbeam = wbeam_orig

\* the factor has been multiplied by 0.9 and the beams follow it
C13_Multiplied ==
    /\ fsgs'.beam_factor = (fsgs.beam_factor * 9) \div 10
    /\ C13_Scaled(fsgs'.beam, beam_orig, fsgs'.beam_factor)
    /\ C13_Scaled(fsgs'.pbeam, pbeam_orig, fsgs'.beam_factor)
    /\ C13_Scaled(fsgs'.wbeam, wbeam_orig, fsgs'.beam_factor)

\* C13 as stated: every frame over the cap multiplies beam_factor by 0.9 and
\* rescales the beams, every other frame resets them, so the factor falls by
\* at most the factor 0.9 per frame over the cap.
C13_Original ==
    [][ EvalStep =>
          /\ OverCap => C13_Multiplied
          /\ ~OverCap => C13_Reset
          /\ OverCap => fsgs'.beam_factor >= (fsgs.beam_factor * 9) \div 10
      ]_vars

\* C13 (amended): a frame with more than maxhmmpf evaluated HMMs (maxhmmpf
\* not -1) multiplies beam_factor by 0.9 and rescales the three beams if the
\* factor is above 0.1 and leaves them alone otherwise; a frame with at least
\* one and at most maxhmmpf HMMs, or with maxhmmpf = -1, resets the factor to
\* 1.0 and the beams to their originals; a frame with no active HMM changes
\* neither; so each frame over the cap lowers the factor by at most 0.9.
C13_BeamAdaptation ==
    [][ EvalStep =>
          /\ (OverCap /\ fsgs.beam_factor > FactorFloor) => C13_Multiplied
          /\ (OverCap /\ fsgs.beam_factor <= FactorFloor) => C13_Kept
          /\ (~OverCap /\ EvalN >= 1) => C13_Reset
          /\ EvalN = 0 => C13_Kept
          /\ OverCap => fsgs'.beam_factor >= (fsgs.beam_factor * 9) \div 10
      ]_vars

\* three frames over the cap in a row have been evaluated
C13_Witness ==
    /\ pc = "idle" /\ fsgs.maxhmmpf # -1
    /\ Len(fsgs.pnode_active) > fsgs.maxhmmpf
    /\ fsgs.beam_factor = 729000
    /\ fsgs.beam = -2

\* C14: in every reachable state beam_factor lies in [0.1, 1.0].
C14_BeamFactorRange ==
    FactorFloor <= fsgs.beam_factor /\ fsgs.beam_factor <= FactorOne

\* the lextree roots, of any state
C15_Roots == UNION {Elems(fsg_lextree_root(fsgs.fsg, d)) : d \in States}

\* C15: every root pnode that has been entered from a history entry e (by
\* start or by a step) passed both context tests, e.lc in the root's ctxt
\* and the root's ci_ext in e.rc, and is a root of the destination state of
\* e (the start state for the dummy entry).
C15_CrossWordAdmissible ==
    \A r \in C15_Roots :
        (fsgs.hmm[r].frame >= 0 /\ fsgs.fault = "none") =>
            /\ fsgs.hmm[r].in_history >= 0
            /\ fsgs.hmm[r].in_history < fsg_history_n_entries(fsgs)
            /\ LET e == fsg_history_entry_get(fsgs, fsgs.hmm[r].in_history)
               IN /\ e.lc \in Pnode(fsgs, r).ctxt
                  /\ Pnode(fsgs, r).ci_ext \in e.rc
                  /\ r \in Elems(fsg_lextree_root(fsgs.fsg, DestState(fsgs, e)))

\* two entries reach the same state in one frame: a root of that state has
\* been entered from one of them and has failed the right-context test of
\* the other
C15_Witness ==
    /\ pc = "deact"
    /\ \E r \in C15_Roots, i \in fsgs.bpidx_start .. fsg_history_n_entries(fsgs) - 1 :
          LET e == fsg_history_entry_get(fsgs, i)
          IN /\ fsgs.hmm[r].frame = fsgs.frame + 1
             /\ fsgs.hmm[r].in_history # i
             /\ fsgs.hmm[r].in_history >= fsgs.bpidx_start
             /\ r \in Elems(fsg_lextree_root(fsgs.fsg, DestState(fsgs, e)))
             /\ e.lc \in Pnode(fsgs, r).ctxt
             /\ Pnode(fsgs, r).ci_ext \notin e.rc

\* C16: fsg_search_finish empties both active sets, deactivates every pnode
\* that was in either of them and sets final, after any number of steps; a
\* second finish changes nothing; a start directly after finish passes its
\* emptiness assertions.
C16_Finish ==
    [][ /\ last_op' = "finish" =>
              /\ fsgs'.pnode_active = << >>
              /\ fsgs'.pnode_active_next = << >>
              /\ fsgs'.final
              /\ \A p \in Elems(fsgs.pnode_active) \cup Elems(fsgs.pnode_active_next) :
                     fsgs'.hmm[p] = hmm_clear
              /\ \A p \in AllPnodes : fsgs'.hmm[p].frame = -1
        /\ (last_op = "finish" /\ last_op' = "finish") => fsgs' = fsgs
        /\ (last_op = "finish" /\ last_op' = "start") => fsgs'.fault = "none"
      ]_vars

\* finish has ended an utterance of two frames or more in which HMMs were
\* evaluated
C16_Witness ==
    /\ last_op = "finish" /\ fsgs.final
    /\ fsgs.frame >= 2 /\ fsgs.n_hmm_eval >= 3
    /\ fsg_history_n_entries(fsgs) >= 3

\* C17: in every step the number of HMMs evaluated is the number of pnodes
\* in the active set, which is at most the number of pnodes of the lextree,
\* so the fatal check of fsg_search_hmm_eval never fires in any sequence of
\* start, step and finish.
C17_EvalCount ==
    [][ EvalStep =>
          /\ fsgs'.n_hmm_eval - fsgs.n_hmm_eval =
                 Cardinality(Elems(fsgs.pnode_active))
          /\ fsgs'.n_hmm_eval - fsgs.n_hmm_eval <=
                 fsg_lextree_n_pnode(fsgs.fsg)
          /\ fsgs'.fault # "fatal"
      ]_vars

\* every pnode of the lextree has just been evaluated, in the third frame of
\* an utterance or later
C17_Witness ==
    /\ pc = "prune" /\ fsgs.frame >= 2
    /\ Len(fsgs.pnode_active) = fsg_lextree_n_pnode(fsgs.fsg)
    /\ fsgs.n_hmm_eval > fsg_lextree_n_pnode(fsgs.fsg)

\* what a frame without active HMMs must leave alone
C18_Untouched ==
    /\ fsgs'.history = fsgs.history
    /\ fsgs'.n_hmm_eval = fsgs.n_hmm_eval
    /\ fsgs'.hmm = fsgs.hmm
    /\ fsgs'.bestscore = fsgs.bestscore
    /\ fsgs'.beam_factor = fsgs.beam_factor
    /\ fsgs'.beam = fsgs.beam
    /\ fsgs'.pbeam = fsgs.pbeam
    /\ fsgs'.wbeam = fsgs.wbeam
    /\ fsgs'.pnode_active = << >>
    /\ fsgs'.pnode_active_next = << >>
    /\ fsgs'.fault = "none"

\* C18: a step that runs with an empty active set evaluates no HMM, adds no
\* history entry, keeps bestscore and the beams, leaves the active set empty,
\* and still returns 1 with frame incremented.
C18_EmptyActiveStep ==
    [][ /\ (pc = "idle" /\ pc' # "idle" /\ fsgs.pnode_active = << >>) =>
              C18_Untouched
        /\ (pc # "idle" /\ fsgs.pnode_active = << >>
               /\ fsgs.pnode_active_next = << >>) =>
              /\ C18_Untouched
              /\ pc' = NextPhase(pc)
              /\ pc' = "idle" => (ret' = 1 /\ fsgs'.frame = fsgs.frame + 1)
              /\ pc' # "idle" => fsgs'.frame = fsgs.frame
      ]_vars

\* a step has returned 1 on an empty active set, after an utterance that left
\* narrowed beams, a best score and history entries behind
C18_Witness ==
    /\ StepReturned1 /\ last_op = "step"
    /\ fsgs.pnode_active = << >>
    /\ fsgs.beam_factor < FactorOne
    /\ fsgs.bestscore < 0
    /\ fsg_history_n_entries(fsgs) >= 2

\* the entry null propagation makes in fsg_search_start for the null arc l out
\* of the start state
C19_NullEntry(l) ==
    HistEntry(l, -1, 0 + fsg_link_logs2prob(fsgs.fsg, l), 0, SIL, AllCtxt)

\* C19: for the FSG 0 -null-> 1 -W-> 2 (grammar 2), after start and before
\* any step the history holds the dummy entry at frame -1 and, for the null
\* arc into state 1, an entry with score 0 + its log-probability, frame -1 and
\* pred 0; the roots of state 1 have been offered the transition from it.
C19_NullFromStart ==
    (last_op = "start" /\ fsgs.fault = "none" /\ fsgs.fsg = 2) =>
        LET l == fsg_model_null_trans(2, start_state(2), 1)
        IN /\ l # 0
           /\ fsgs.history = <<DummyEntry, C19_NullEntry(l)>>
           /\ fsgs.pnode_active # << >>
           /\ \A r \in Elems(fsg_lextree_root(2, 1)) :
                 (/\ SIL \in Pnode(fsgs, r).ctxt
                  /\ C19_NullEntry(l).score + Pnode(fsgs, r).logs2prob
                        >= 0 + fsgs.beam) =>
                     /\ r \in Elems(fsgs.pnode_active)
                     /\ fsgs.hmm[r].frame = 0
                     /\ fsgs.hmm[r].in_history = 1
                     /\ fsgs.hmm[r].in_score =
                            C19_NullEntry(l).score + Pnode(fsgs, r).logs2prob

\* start has returned for grammar 2 with the root of state 1 entered from the
\* null entry
C19_Witness ==
    /\ last_op = "start" /\ fsgs.fault = "none" /\ fsgs.fsg = 2
    /\ fsg_history_n_entries(fsgs) = 2
    /\ fsgs.hmm[1].in_history = 1 /\ fsgs.hmm[1].frame = 0

RECURSIVE C20_Back(_, _)
\* the nodes from which a node of S is reached along links of dag
C20_Back(dag, S) ==
    LET T == S \cup {x.from : x \in {y \in dag.links : y.to \in S}}
    IN IF T = S THEN S ELSE C20_Back(dag, T)

\* C20: in the lattice fsg_search_lattice returns, every node is reachable
\* from the end node by following incoming links backwards: the nodes from
\* which the end node cannot be reached have been deleted.
C20_LatticeReachable ==
    (last_op = "lattice" /\ fsgs.fault = "none") =>
        /\ ~fsgs.dag.null
        /\ fsgs.dag.end \in {n.id : n \in fsgs.dag.nodes}
        /\ {n.id : n \in fsgs.dag.nodes} \subseteq
               C20_Back(fsgs.dag, {fsgs.dag.end})

\* a lattice of three nodes or more has been built, and a node that had been
\* allocated for a word exit is no longer in it
C20_Witness ==
    /\ last_op = "lattice" /\ ~fsgs.dag.null
    /\ Cardinality(fsgs.dag.nodes) >= 3
    /\ fsgs.dag.n_alloc > Cardinality(fsgs.dag.nodes)
    /\ fsgs.dag.links # {}

\* C21: a call of fsg_search_lattice that directly follows another call
\* returns the same lattice object, nothing rebuilt; a call that follows a
\* step which advanced the frame builds a new lattice object.
C21_LatticeCache ==
    [][(last_op' = "lattice" /\ fsgs.fault = "none") =>
          /\ last_op = "lattice" => fsgs'.dag = fsgs.dag
          /\ (last_op = "step" /\ ret = 1) =>
                 /\ ~fsgs'.dag.null
                 /\ fsgs'.dag.serial # fsgs.dag.serial
                 /\ fsgs'.dag.n_frames = fsgs.frame]_vars

\* a call of fsg_set_remove or fsg_set_remove_byname
C22_Removal == last_op' \in {"fsg_set_remove", "fsg_set_remove_byname"}

\* what C22 says of removal: removing the current FSG leaves the current FSG
\* and the lextree NULL; removing another registered FSG, or one that is not
\* registered (NULL returned), leaves both as they were
C22_Remove ==
    C22_Removal =>
        /\ (ret' # NoFsg /\ ret' = fsgs.fsg) =>
               fsgs'.fsg = NoFsg /\ fsgs'.lextree = NoFsg
        /\ (ret' = NoFsg \/ ret' # fsgs.fsg) =>
               fsgs'.fsg = fsgs.fsg /\ fsgs'.lextree = fsgs.lextree
        /\ ret' = NoFsg => fsgs' = fsgs
        /\ ret' # NoFsg =>
               \E key \in FsgNames :
                  /\ fsgs.fsgs[key] = ret'
                  /\ fsgs'.fsgs = [fsgs.fsgs EXCEPT ![key] = NoFsg]

C23_Survives(p) ==
    /\ p \in Elems(fsgs.pnode_active)
    /\ fsgs.hmm[p].bestscore >= fsgs.bestscore + fsgs.beam

\* the HMM of pnode p is entered in this step of the model: it changes
\* otherwise than by having its frame moved on
C23_Entered(p) ==
    /\ fsgs'.hmm[p] # fsgs.hmm[p]
    /\ fsgs'.hmm[p] # [fsgs.hmm[p] EXCEPT !.frame = fsgs.frame + 1]

\* C23: the pnodes active in frame F+1 are those active in frame F whose HMM
\* best score is within the beam, those entered by a phone-internal
\* transition and those entered by a cross-word transition of frame F, and
\* no others; every other pnode active in frame F is deactivated before the
\* lists are swapped.
C23_ActiveNext ==
    [][(fsgs.fault = "none" /\ fsgs'.fault = "none") =>
          /\ pc = "prune" =>
                Elems(fsgs'.pnode_active_next) =
                   {p \in AllPnodes : C23_Survives(p) \/ C23_Entered(p)}
          /\ pc \in {"commit1", "null", "commit2"} =>
                /\ fsgs'.pnode_active_next = fsgs.pnode_active_next
                /\ fsgs'.hmm = fsgs.hmm
          /\ pc = "xword" =>
                Elems(fsgs'.pnode_active_next) =
                   Elems(fsgs.pnode_active_next) \cup
                   {p \in AllPnodes : C23_Entered(p)}
          /\ pc = "deact" =>
                /\ fsgs'.pnode_active_next = fsgs.pnode_active_next
                /\ \A p \in AllPnodes :
                      fsgs'.hmm[p] =
                         IF /\ p \in Elems(fsgs.pnode_active)
                            /\ p \notin Elems(fsgs.pnode_active_next)
                         THEN hmm_clear ELSE fsgs.hmm[p]
          /\ pc = "swap" =>
                /\ Elems(fsgs'.pnode_active) = Elems(fsgs.pnode_active_next)
                /\ fsgs'.hmm = fsgs.hmm]_vars

\* the lists are about to be swapped: one pnode of the frame has been
\* deactivated, one is carried over and one has been entered anew
C23_Witness ==
    /\ pc = "swap" /\ fsgs.fault = "none"
    /\ \E p, q, r \in AllPnodes :
          /\ p \in Elems(fsgs.pnode_active) /\ fsgs.hmm[p] = hmm_clear
          /\ p \notin Elems(fsgs.pnode_active_next)
          /\ q \in Elems(fsgs.pnode_active) \cap Elems(fsgs.pnode_active_next)
          /\ r \in Elems(fsgs.pnode_active_next) \ Elems(fsgs.pnode_active)

\* the score child c would be entered with from parent p
C24_NewScore(p, c) == fsgs.hmm[p].out_score + Pnode(fsgs, c).logs2prob

\* the internal pnodes that propagate to child c in this frame: active, HMM
\* best score within beam, exit score within pbeam, and a score for c that
\* is within beam and above the score c holds before the propagation
C24_Sources(c) ==
    {p \in AllPnodes :
        /\ ~Pnode(fsgs, p).leaf /\ c \in Elems(Pnode(fsgs, p).succ)
        /\ C23_Survives(p)
        /\ fsgs.hmm[p].out_score >= fsgs.bestscore + fsgs.pbeam
        /\ C24_NewScore(p, c) >= fsgs.bestscore + fsgs.beam
        /\ C24_NewScore(p, c) > fsgs.hmm[c].in_score}

\* the number of occurrences of p in list
C24_Count(list, p) == Cardinality({i \in 1 .. Len(list) : list[i] = p})

\* C24: in fsg_search_hmm_prune_prop a child is entered exactly when an
\* internal parent within beam and pbeam offers it a score newscore = parent
\* out_score + child.logs2prob that is >= bestscore + beam and above the
\* child's in_score; it then holds the best such score, the out_history of a
\* parent that offered it and frame F+1, and it is on pnode_active_next once,
\* pushed there by the transition only if its frame was below F+1.
C24_PhoneInternal ==
    [][(pc = "prune" /\ fsgs.fault = "none" /\ fsgs'.fault = "none") =>
          \A c \in AllPnodes :
             IF C24_Sources(c) = {}
             THEN ~C23_Entered(c)
             ELSE /\ \E p \in C24_Sources(c) :
                        /\ \A q \in C24_Sources(c) :
                              C24_NewScore(q, c) <= C24_NewScore(p, c)
                        /\ fsgs'.hmm[c] =
                              hmm_enter(fsgs.hmm[c], C24_NewScore(p, c),
                                        fsgs.hmm[p].out_history, fsgs.frame + 1)
                  /\ C24_Count(fsgs'.pnode_active_next, c) = 1]_vars

\* after the propagation of a frame, a child that was active in the frame
\* and within the beam has been entered by its parent
C24_Witness ==
    /\ pc = "commit1" /\ fsgs.fault = "none"
    /\ \E p, c \in AllPnodes :
          /\ c \in Elems(Pnode(fsgs, p).succ)
          /\ {p, c} \subseteq Elems(fsgs.pnode_active)
          /\ fsgs.hmm[c].bestscore >= fsgs.bestscore + fsgs.beam
          /\ fsgs.hmm[c].frame = fsgs.frame + 1
          /\ fsgs.hmm[c].in_score =
                fsgs.hmm[p].out_score + Pnode(fsgs, c).logs2prob
          /\ fsgs.hmm[c].in_history = fsgs.hmm[p].out_history
          /\ fsgs.hmm[c].in_score # fsgs.hmm[c].out_score

\* leaf p exits its word in the frame in progress
C25_Exits(p) ==
    /\ Pnode(fsgs, p).leaf
    /\ C23_Survives(p)
    /\ fsgs.hmm[p].out_score >= fsgs.bestscore + fsgs.wbeam

\* the right contexts of the word exit of leaf p
C25_Rc(p) ==
    LET wid == fsg_link_wid(fsgs.fsg, Pnode(fsgs, p).fsglink)
    IN IF fsg_model_is_filler(fsgs.fsg, wid) \/ dict_pronlen(fsgs.fsg, wid) = 1
       THEN AllCtxt ELSE Pnode(fsgs, p).ctxt

RECURSIVE C25_Emit(_, _)
\* the history table f after the word exits of the active pnodes from
\* position i have been added to it
C25_Emit(f, i) ==
    IF i > Len(fsgs.pnode_active) THEN f
    ELSE LET p == fsgs.pnode_active[i]
         IN C25_Emit(IF C25_Exits(p)
                     THEN fsg_history_entry_add(f, Pnode(fsgs, p).fsglink,
                              fsgs.frame, fsgs.hmm[p].out_score,
                              fsgs.hmm[p].out_history, Pnode(fsgs, p).ci_ext,
                              C25_Rc(p))
                     ELSE f, i + 1)

\* C25: the entries fsg_search_hmm_prune_prop hands to the history table in
\* frame F are one per active leaf with HMM best score >= bestscore + beam
\* and out_score >= bestscore + wbeam, and no other: link of the leaf, frame
\* F, score out_score, pred out_history, lc ci_ext, and rc every phone for a
\* filler or a one-phone word, the ctxt of the leaf otherwise.
C25_WordExit ==
    [][(pc = "prune" /\ fsgs.fault = "none" /\ fsgs'.fault = "none") =>
          /\ fsgs'.frame_entries = C25_Emit(fsgs, 1).frame_entries
          /\ fsgs'.history = fsgs.history]_vars

\* the entries of the frame in progress that wait for the commit
C25_Pending == FlattenEntries(fsgs.frame_entries, 0, 0)

\* the word exits of a frame wait for the commit: a one-phone word whose
\* leaf has a narrower ctxt went in with every right context, a longer word
\* with the ctxt of its leaf, and a leaf within beam but not within wbeam
\* has no entry
C25_Witness ==
    /\ pc = "commit1" /\ fsgs.fault = "none"
    /\ \E p, q \in AllPnodes :
          /\ C25_Exits(p) /\ C25_Rc(p) = AllCtxt
          /\ Pnode(fsgs, p).ctxt # AllCtxt
          /\ \E i \in 1 .. Len(C25_Pending) :
                /\ C25_Pending[i].fsglink = Pnode(fsgs, p).fsglink
                /\ C25_Pending[i].rc = AllCtxt
          /\ C25_Exits(q) /\ C25_Rc(q) # AllCtxt
          /\ \E i \in 1 .. Len(C25_Pending) :
                /\ C25_Pending[i].fsglink = Pnode(fsgs, q).fsglink
                /\ C25_Pending[i].rc = Pnode(fsgs, q).ctxt
    /\ \E r \in AllPnodes :
          /\ Pnode(fsgs, r).leaf /\ C23_Survives(r) /\ ~C25_Exits(r)
          /\ \A i \in 1 .. Len(C25_Pending) :
                C25_Pending[i].fsglink # Pnode(fsgs, r).fsglink

\* the entry at history index i goes over a null arc of the grammar
C26_IsNull(f, i) ==
    /\ f.history[i + 1].fsglink # 0
    /\ fsg_link_wid(f.fsg, f.history[i + 1].fsglink) = -1

\* the null arc from the destination state of the entry at index i to state
\* d, or 0
C26_Arc(i, d) ==
    LET e == fsgs.history[i + 1]
    IN fsg_model_null_trans(fsgs.fsg,
           IF e.fsglink = 0 THEN start_state(fsgs.fsg)
           ELSE fsg_link_to_state(fsgs.fsg, e.fsglink), d)

RECURSIVE C26_Emit(_, _, _)
\* the history table f after the null transitions of the entries from index
\* i, state d, up to the entries there were before the pass
C26_Emit(f, i, d) ==
    IF i >= Len(fsgs.history) THEN f
    ELSE IF d >= n_state(fsgs.fsg) THEN C26_Emit(f, i + 1, 0)
    ELSE LET e == fsgs.history[i + 1]
             l == C26_Arc(i, d)
             score == e.score + fsg_link_logs2prob(fsgs.fsg, l)
         IN C26_Emit(IF l # 0 /\ score >= fsgs.bestscore + fsgs.wbeam
                     THEN fsg_history_entry_add(f, l, e.frame, score, i,
                                                e.lc, e.rc)
                     ELSE f, i, d + 1)

\* C26: null propagation in a step is one pass over the entries committed in
\* the frame, indices bpidx_start up to the size at the start of the pass;
\* for each such entry e and each null arc from its destination state an
\* entry {arc, e.frame, e.score + logprob, pred index(e), e.lc, e.rc} is
\* handed to the table iff that score >= bestscore + wbeam, and nothing else
\* is; no entry made over a null arc has for pred an entry made over a null
\* arc in the same frame.
C26_NullProp ==
    [][/\ (pc = "null" /\ fsgs.fault = "none" /\ fsgs'.fault = "none") =>
             /\ fsgs'.frame_entries =
                   C26_Emit(fsgs, fsgs.bpidx_start, 0).frame_entries
             /\ fsgs'.history = fsgs.history
       /\ fsgs'.fault = "none" =>
             \A i \in 0 .. Len(fsgs'.history) - 1 :
                C26_IsNull(fsgs', i) =>
                   LET j == fsgs'.history[i + 1].pred
                   IN /\ j >= 0 /\ j < i
                      /\ ~(/\ C26_IsNull(fsgs', j)
                            /\ fsgs'.history[j + 1].frame =
                                  fsgs'.history[i + 1].frame)]_vars

\* a step has committed an entry made over a null arc from a word exit of
\* its frame, and a null arc within wbeam leaves the destination of that
\* entry as well
C26_Witness ==
    /\ pc = "xword" /\ fsgs.fault = "none"
    /\ \E i \in fsgs.bpidx_start .. Len(fsgs.history) - 1 :
          /\ C26_IsNull(fsgs, i)
          /\ \E d \in States :
                /\ C26_Arc(i, d) # 0
                /\ fsgs.history[i + 1].score
                      + fsg_link_logs2prob(fsgs.fsg, C26_Arc(i, d))
                         >= fsgs.bestscore + fsgs.wbeam
          /\ fsgs.history[i + 1].frame = fsgs.frame
          /\ fsgs.history[i + 1].pred >= fsgs.bpidx_start
          /\ ~C26_IsNull(fsgs, fsgs.history[i + 1].pred)
          /\ fsgs.history[i + 1].score =
                fsgs.history[fsgs.history[i + 1].pred + 1].score
                + fsg_link_logs2prob(fsgs.fsg, fsgs.history[i + 1].fsglink)

\* the score root r would be entered with from the entry at index i
C27_NewScore(f, i, r) == f.history[i + 1].score + Pnode(f, r).logs2prob

\* the entry at index i of f is an entry of the frame that ends in a state
\* root r is attached to and whose contexts admit r
C27_Admits(f, i, r) ==
    LET e == f.history[i + 1]
        d == IF e.fsglink = 0 THEN start_state(f.fsg)
             ELSE fsg_link_to_state(f.fsg, e.fsglink)
    IN /\ i >= f.bpidx_start
       /\ r \in Elems(fsg_lextree_root(f.fsg, d))
       /\ e.lc \in Pnode(f, r).ctxt
       /\ Pnode(f, r).ci_ext \in e.rc

\* the entries that can enter root r: admissible, within the beam and above
\* the score r holds before the cross-word transitions
C27_Sources(r) ==
    {i \in 0 .. Len(fsgs.history) - 1 :
        /\ C27_Admits(fsgs, i, r)
        /\ C27_NewScore(fsgs, i, r) >= fsgs.bestscore + fsgs.beam
        /\ C27_NewScore(fsgs, i, r) > fsgs.hmm[r].in_score}

\* C27: after fsg_search_word_trans a root that was entered holds the
\* maximum of e.score + root.logs2prob over the admissible entries e of the
\* frame that are within bestscore + beam and above its previous in_score,
\* its history is the index of the entry with that maximum, the lowest such
\* index when several entries have it, and its frame is F+1; a root with no
\* such entry is not entered.
C27_CrossWordBest ==
    [][(pc = "xword" /\ fsgs.fault = "none" /\ fsgs'.fault = "none") =>
          \A r \in AllPnodes :
             IF C27_Sources(r) = {}
             THEN ~C23_Entered(r)
             ELSE \E i \in C27_Sources(r) :
                     /\ \A j \in C27_Sources(r) :
                           \/ C27_NewScore(fsgs, j, r) < C27_NewScore(fsgs, i, r)
                           \/ /\ C27_NewScore(fsgs, j, r)
                                    = C27_NewScore(fsgs, i, r)
                              /\ i <= j
                     /\ fsgs'.hmm[r] =
                           hmm_enter(fsgs.hmm[r], C27_NewScore(fsgs, i, r), i,
                                     fsgs.frame + 1)]_vars

\* after the cross-word transitions of a frame a root holds a score that two
\* admissible entries of the frame offered, with the lower index as history
C27_Witness ==
    /\ pc = "deact" /\ fsgs.fault = "none"
    /\ \E r \in AllPnodes :
       \E i, j \in fsgs.bpidx_start .. Len(fsgs.history) - 1 :
          /\ i < j
          /\ C27_Admits(fsgs, i, r) /\ C27_Admits(fsgs, j, r)
          /\ C27_NewScore(fsgs, i, r) = fsgs.hmm[r].in_score
          /\ C27_NewScore(fsgs, j, r) = fsgs.hmm[r].in_score
          /\ fsgs.hmm[r].in_history = i
          /\ fsgs.hmm[r].frame = fsgs.frame + 1

\* the k-th smallest element of the set of integers S, k counted from 1
C28_Nth(S, k) == CHOOSE x \in S : Cardinality({y \in S : y <= x}) = k

\* the segment of the history entry at index i as C28 gives it
C28_Segment(i) ==
    LET e == fsgs.history[i + 1]
        nopred == e.pred < 0
        p == fsgs.history[IF nopred THEN 1 ELSE e.pred + 1]
        sf == IF nopred THEN 0 ELSE p.frame + 1
        lscr == Links(fsgs.fsg)[e.fsglink].logs2prob
    IN [ef |-> e.frame, sf |-> IF sf <= e.frame THEN sf ELSE e.frame,
        lscr |-> lscr,
        ascr |-> IF nopred THEN e.score - lscr ELSE e.score - p.score - lscr]

C29_Entries ==
    {i \in 0 .. Len(fsgs.history) - 1 :
        /\ fsgs.history[i + 1].fsglink # 0
        /\ Links(fsgs.fsg)[fsgs.history[i + 1].fsglink].wid # -1}

C29_Wid(i) == Links(fsgs.fsg)[fsgs.history[i + 1].fsglink].wid
\* start frame and score of the entry at index i, from its predecessor
C29_Sf(i) == fsgs.history[fsgs.history[i + 1].pred + 1].frame + 1
C29_Ascr(i) ==
    fsgs.history[i + 1].score - fsgs.history[fsgs.history[i + 1].pred + 1].score

\* the lattice after the first pass over the history of the decoder
C29_Dag ==
    LatPassNodes(fsgs, ps_lattice_init_search(fsgs), 0, Len(fsgs.history))

\* the entries merged into node n
C29_Merged(n) == {i \in C29_Entries : C29_Sf(i) = n.sf /\ C29_Wid(i) = n.wid}

\* C29: the first pass of fsg_search_lattice makes exactly one node per
\* distinct (start frame, word id) over the history entries that carry a
\* word, start frame = frame(pred) + 1 and ascr = score - score(pred); fef
\* and lef of a node are the least and the greatest frame, best_exit the
\* greatest ascr, of the entries merged into it, so fef <= lef.
C29_PassOne ==
    (last_op = "lattice" /\ fsgs.fault = "none") =>
      LET d1 == C29_Dag
      IN
        /\ \A i \in C29_Entries : fsgs.history[i + 1].pred >= 0
        /\ \A i \in C29_Entries :
              Cardinality({n \in d1.nodes :
                              n.sf = C29_Sf(i) /\ n.wid = C29_Wid(i)}) = 1
        /\ \A n \in d1.nodes :
              /\ C29_Merged(n) # {}
              /\ \E i \in C29_Merged(n) : n.fef = fsgs.history[i + 1].frame
              /\ \E i \in C29_Merged(n) : n.lef = fsgs.history[i + 1].frame
              /\ \E i \in C29_Merged(n) : n.best_exit = C29_Ascr(i)
              /\ \A i \in C29_Merged(n) :
                    /\ n.fef <= fsgs.history[i + 1].frame
                    /\ fsgs.history[i + 1].frame <= n.lef
                    /\ C29_Ascr(i) <= n.best_exit
              /\ n.fef <= n.lef
        /\ d1.links = {}

\* a lattice has been built from a history in which two exits of one word
\* with one start frame, the later with the better score, share a node, and
\* a second word has a node of its own
C29_Witness ==
    /\ last_op = "lattice" /\ fsgs.fault = "none" /\ ~fsgs.dag.null
    /\ LET d1 == C29_Dag
       IN /\ Cardinality(d1.nodes) >= 2
          /\ \E n \in d1.nodes :
             \E i, j \in C29_Merged(n) :
                /\ i < j /\ n.fef < n.lef
                /\ C29_Ascr(i) < C29_Ascr(j)

\* the lattice after the second pass, after find_start_node and after
\* find_end_node
C30_Linked == LatPassLinks(fsgs, C29_Dag, 0, Len(fsgs.history))
C30_Started == find_start_node(fsgs, C30_Linked)
C30_Ended == find_end_node(fsgs, C30_Started)

\* the candidates in the lattice d: nodes that start in frame 0 and have a
\* link out, nodes whose last end frame is the last frame and that have a
\* link in
C30_StartCands(d) ==
    {n \in d.nodes : n.sf = 0 /\ \E x \in d.links : x.from = n.id}
C30_EndCands(d) ==
    {n \in d.nodes :
        n.lef = fsgs.frame - 1 /\ \E x \in d.links : x.to = n.id}

\* C30: with exactly one start (end) candidate it is the start (end) node
\* and nothing is added to the lattice; with none or several a node <s>
\* (</s>) is added and becomes the start (end) node, with one link to (from)
\* every candidate, of score 0 on the start side and of the candidate's
\* best_exit on the end side.
C30_StartEnd ==
    (last_op = "lattice" /\ fsgs.fault = "none") =>
        LET d2 == C30_Linked
            d3 == find_start_node(fsgs, d2)
            d4 == find_end_node(fsgs, d3)
            sc == C30_StartCands(d2)
            ec == C30_EndCands(d3)
        IN /\ IF Cardinality(sc) = 1
              THEN /\ \E c \in sc : d3.start = c.id
                   /\ d3.nodes = d2.nodes
                   /\ d3.links = d2.links
              ELSE \E a \in d3.nodes \ d2.nodes :
                   /\ a.wid = StartWordId /\ a.sf = 0
                   /\ a.fef = 0 /\ a.lef = 0
                   /\ \A n \in d2.nodes : n.id # a.id
                   /\ d3.start = a.id
                   /\ d3.nodes = d2.nodes \cup {a}
                   /\ d3.links = d2.links \cup
                         {[from |-> a.id, to |-> c.id, ascr |-> 0, ef |-> 0] :
                             c \in sc}
           /\ IF Cardinality(ec) = 1
              THEN /\ \E c \in ec : d4.end = c.id
                   /\ d4.nodes = d3.nodes
                   /\ d4.links = d3.links
              ELSE \E a \in d4.nodes \ d3.nodes :
                   /\ a.wid = EndWordId /\ a.sf = fsgs.frame
                   /\ a.fef = fsgs.frame /\ a.lef = fsgs.frame
                   /\ \A n \in d3.nodes : n.id # a.id
                   /\ d4.end = a.id
                   /\ d4.nodes = d3.nodes \cup {a}
                   /\ d4.links = d3.links \cup
                         {[from |-> c.id, to |-> a.id, ascr |-> c.best_exit,
                           ef |-> fsgs.frame] : c \in ec}
           /\ d4.start = d3.start
           /\ fsgs.dag.start = d3.start
           /\ fsgs.dag.end = d4.end

\* a lattice has been built where several nodes were start candidates and
\* several were end candidates, one of these with a best_exit other than 0
\* and one with no link into it before <s> was linked to it
C30_Witness ==
    /\ last_op = "lattice" /\ fsgs.fault = "none" /\ ~fsgs.dag.null
    /\ LET d2 == C30_Linked
           ec == C30_EndCands(C30_Started)
       IN /\ Cardinality(C30_StartCands(d2)) >= 2
          /\ Cardinality(ec) >= 2
          /\ \E c \in ec : c.best_exit # 0
          /\ \E c \in ec : \A x \in d2.links : x.to # c.id

RECURSIVE C31_Forward(_, _)
\* the ids of S and of the nodes reached from S along the links of dag
C31_Forward(dag, S) ==
    LET T == S \cup {x.to : x \in {y \in dag.links : y.from \in S}}
    IN IF T = S THEN S ELSE C31_Forward(dag, T)

\* C31: in the lattice fsg_search_lattice returns every node is reached
\* from the start node along the links, the nodes that start in frame 0
\* and are not the start node included (stated for a history with at
\* least one word in it).
C31_FromStart ==
    (/\ last_op = "lattice" /\ fsgs.fault = "none" /\ ~fsgs.dag.null
     /\ C29_Entries # {}) =>
        LET dag == fsgs.dag
        IN {n.id : n \in dag.nodes} \subseteq C31_Forward(dag, {dag.start})

\* the node of dag with the id given
C32_Node(dag, id) == CHOOSE n \in dag.nodes : n.id = id

\* no node of dag is reached from itself along one or more links
C32_Acyclic(dag) ==
    \A n \in dag.nodes :
        n.id \notin C31_Forward(dag, {x.to : x \in LatExits(dag, n.id)})

\* C32: the lattice is acyclic.  Every link of the second pass leaves a
\* node whose start frame is at most the frame ef of the entry it was made
\* for and enters a node whose start frame is ef + 1; in the lattice
\* returned the start frame grows along every link between two word nodes,
\* and no node, <s> and </s> included, is reached from itself.
C32_LatticeAcyclic ==
    (last_op = "lattice" /\ fsgs.fault = "none" /\ ~fsgs.dag.null) =>
        LET d2 == C30_Linked
            dag == fsgs.dag
            art == {dict_to_id(fsgs.fsg, StartWordId),
                    dict_to_id(fsgs.fsg, EndWordId)}
        IN /\ \A x \in d2.links :
                 /\ C32_Node(d2, x.from).sf <= x.ef
                 /\ C32_Node(d2, x.to).sf = x.ef + 1
           /\ C32_Acyclic(d2)
           /\ \A x \in dag.links :
                 (/\ C32_Node(dag, x.from).wid \notin art
                  /\ C32_Node(dag, x.to).wid \notin art) =>
                     C32_Node(dag, x.from).sf < C32_Node(dag, x.to).sf
           /\ C32_Acyclic(dag)

\* a lattice has been returned in which <s> is linked to several nodes,
\* several nodes are linked to </s>, and a link joins two word nodes
C32_Witness ==
    /\ last_op = "lattice" /\ fsgs.fault = "none" /\ ~fsgs.dag.null
    /\ LET dag == fsgs.dag
       IN /\ \E n \in dag.nodes :
                n.id = dag.start /\ n.wid = dict_to_id(fsgs.fsg, StartWordId)
          /\ \E n \in dag.nodes :
                n.id = dag.end /\ n.wid = dict_to_id(fsgs.fsg, EndWordId)
          /\ Cardinality(LatExits(dag, dag.start)) >= 2
          /\ Cardinality(LatEntries(dag, dag.end)) >= 2
          /\ \E x \in dag.links :
                /\ x.from # dag.start /\ x.to # dag.end
                /\ C32_Node(dag, x.from).sf < x.ef

\* a part of fsg_search_step is run: the current step begins or one of its
\* phases is executed
C33_InStep == pc # "idle" \/ pc' # "idle"

\* the outcomes of fsg_search_find_exit as fsg_search_hyp calls it on f
C33_Exit(f) == fsg_search_find_exit(f, f.frame, f.final)

\* C33: an empty active list is absorbing.  A step that begins with no
\* active HMM leaves the active list and the list of the next frame empty
\* in every one of its phases, adds no entry to the history and none to the
\* entries of the frame, and leaves the result of fsg_search_find_exit as
\* it was; so it stays for every later step until fsg_search_start.
C33_EmptyAbsorbing ==
    [][(/\ fsgs.fault = "none" /\ C33_InStep
        /\ fsgs.pnode_active = << >>) =>
           /\ fsgs'.pnode_active = << >>
           /\ fsgs'.pnode_active_next = << >>
           /\ fsgs'.history = fsgs.history
           /\ fsgs'.frame_entries = EmptyFrameEntries
           /\ fsgs'.fault = "none"
           /\ C33_Exit(fsgs') = C33_Exit(fsgs)]_vars

\* all the phases but the last of a step have run with no active HMM, in
\* an utterance whose history holds a word and that has not been started
\* again
C33_Witness ==
    /\ pc = "swap" /\ last_op = "step" /\ fsgs.fault = "none"
    /\ fsgs.pnode_active = << >> /\ fsgs.pnode_active_next = << >>
    /\ fsgs.frame >= 2
    /\ C29_Entries # {}
    /\ fsgs.bpidx_start = Len(fsgs.history)

\* the lattice fsg_search_lattice builds from the history f has now, under
\* the serial number of the lattice f holds
C34_Fresh(f) ==
    [fsg_search_lattice([f EXCEPT !.dag = NoDag]).dag
        EXCEPT !.serial = f.dag.serial]

\* C34: the lattice fsg_search_lattice returns is the one built from the
\* history of the current utterance, also when the utterance before it was
\* as many frames long and a lattice was made for it.
C34_CurrentUtterance ==
    (last_op = "lattice" /\ fsgs.fault = "none") =>
        /\ ~fsgs.dag.null
        /\ fsgs.dag = C34_Fresh(fsgs)

\* C35: after any sequence of fsg_set_add, fsg_set_select, fsg_set_remove,
\* fsg_set_remove_byname and fsg_search_reinit, a lextree the decoder holds
\* was built from the FSG that is current, so fsg_search_start and
\* fsg_search_step never find a lextree of another FSG.
C35_LextreeOfCurrent ==
    (fsgs.fault = "none" /\ fsgs.lextree # NoFsg) => fsgs.lextree = fsgs.fsg

====
